---------------------------- MODULE Spec2Model ----------------------------
(***************************************************************************)
(* A model of the lexer front end of t-webber/ccompiler: the location and  *)
(* diagnostic types, the character driven lexer (lex_file / lex_line /     *)
(* lex_char), the symbol buffer, the string/char closing helpers and the   *)
(* number parse results.                                                   *)
(*                                                                         *)
(* Characters are Unicode code points (naturals); a Rust String is a       *)
(* sequence of code points and String::len() is its UTF-8 byte length.     *)
(***************************************************************************)
EXTENDS Integers, Sequences, FiniteSets, TLC

(***************************************************************************)
(* Bounds of the model.                                                    *)
(***************************************************************************)
\* total number of characters of the input text (all lines together)
MaxChars == 4
\* number of lines of the input text
MaxLines == 2
\* columns and offsets tried on Location::into_past
MaxCol == 9
\* digits of a number literal handed to the number parsers
MaxDigits == 10
\* greatest number of digits written after the first character of an escape
MaxEscapeDigits == 4

\* operator characters in a row
MaxSymbols == 4

\* tokens pushed in the Ast
MaxTokens == 4

(***************************************************************************)
(* Characters.                                                             *)
(***************************************************************************)
\* the printable ASCII characters, in code point order starting at U+0020
AsciiTable ==
  << " ", "!", "\"", "#", "$", "%", "&", "'", "(", ")", "*", "+", ",", "-", ".", "/",
     "0", "1", "2", "3", "4", "5", "6", "7", "8", "9", ":", ";", "<", "=", ">", "?",
     "@", "A", "B", "C", "D", "E", "F", "G", "H", "I", "J", "K", "L", "M", "N", "O",
     "P", "Q", "R", "S", "T", "U", "V", "W", "X", "Y", "Z", "[", "\\", "]", "^", "_",
     "GRAVE", "a", "b", "c", "d", "e", "f", "g", "h", "i", "j", "k", "l", "m", "n", "o",
     "p", "q", "r", "s", "t", "u", "v", "w", "x", "y", "z", "{", "|", "}", "~" >>

\* code point of a one-character ASCII string
Ord(s) == 31 + (CHOOSE i \in 1..Len(AsciiTable) : AsciiTable[i] = s)

\* code points of the characters of a tuple of one-character strings
Str2Seq(t) == [i \in 1..Len(t) |-> Ord(t[i])]

\* U+00E9 (e acute): alphanumeric, two bytes in UTF-8
EAcute == Ord("~") + 107

SPACE == Ord(" ")
BACKSLASH == Ord("\\")
SQUOTE == Ord("'")
DQUOTE == Ord("\"")
SLASH == Ord("/")
STAR == Ord("*")
DOT == Ord(".")
PLUS == Ord("+")
MINUS == Ord("-")
UNDERSCORE == Ord("_")

\* char::is_whitespace, on the characters of the model
is_whitespace(ch) == ch = SPACE

\* char::is_ascii_digit
is_ascii_digit(ch) == ch >= Ord("0") /\ ch <= Ord("9")

\* char::is_alphanumeric, on the characters of the model
is_alphanumeric(ch) ==
  \/ is_ascii_digit(ch)
  \/ (ch >= Ord("a") /\ ch <= Ord("z"))
  \/ (ch >= Ord("A") /\ ch <= Ord("Z"))
  \/ ch = EAcute

\* char::len_utf8
len_utf8(ch) ==
  IF ch < 128 THEN 1 ELSE IF ch < 2048 THEN 2 ELSE IF ch < 65536 THEN 3 ELSE 4

RECURSIVE byte_len(_)
\* String::len(): the length in bytes of the UTF-8 encoding
byte_len(s) == IF s = << >> THEN 0 ELSE len_utf8(Head(s)) + byte_len(Tail(s))

\* str::contains(char)
contains(s, ch) == \E i \in 1..Len(s) : s[i] = ch

\* str::starts_with(&str)
starts_with(s, p) == Len(s) >= Len(p) /\ SubSeq(s, 1, Len(p)) = p

RECURSIVE trim_end(_)
\* str::trim_end
trim_end(s) ==
  IF s # << >> /\ is_whitespace(s[Len(s)]) THEN trim_end(SubSeq(s, 1, Len(s) - 1)) ELSE s

(***************************************************************************)
(* errors/location.rs                                                      *)
(***************************************************************************)
\* Location::from(&str): line 1, column 1
LocationFrom == [line |-> 1, col |-> 1]

\* Location::incr_col
incr_col(loc) == [loc EXCEPT !.col = @ + 1]

\* Location::incr_line: the column is left as it is
incr_line(loc) == [loc EXCEPT !.line = @ + 1]

\* usize::checked_sub: None (here -1) only when the result would be negative
checked_sub(a, b) == IF b > a THEN -1 ELSE a - b

\* Location::into_past: col.checked_sub(offset).unwrap_or(1)
into_past(loc, offset) ==
  [loc EXCEPT !.col = IF checked_sub(loc.col, offset) = -1 THEN 1
                      ELSE checked_sub(loc.col, offset)]

(***************************************************************************)
(* errors/compile.rs                                                       *)
(***************************************************************************)
\* ErrorLevel::repr of the three levels
ErrorLevel == {"error", "warning", "suggestion"}

\* to_error!: a diagnostic of level Error
to_error(loc, msg) == [level |-> "error", msg |-> msg, arg |-> << >>, loc |-> loc]

\* to_warning!: a diagnostic of level Warning
to_warning(loc, msg) == [level |-> "warning", msg |-> msg, arg |-> << >>, loc |-> loc]

\* to_suggestion!: the macro builds the diagnostic with ErrorLevel::Warning
to_suggestion(loc, msg) == [level |-> "warning", msg |-> msg, arg |-> << >>, loc |-> loc]

\* Location::to_failure (used by the number parsers): a diagnostic that fails the run
to_failure(loc, msg) == [level |-> "error", msg |-> msg, arg |-> << >>, loc |-> loc]

\* CompileError::is_error
is_error(e) == e.level = "error"

\* Res::unwrap_or_display: TRUE when the result is returned, FALSE when it panics
unwrap_or_display(errs) == errs = << >>

(***************************************************************************)
(* lexer/types/tokens.rs                                                   *)
(***************************************************************************)
\* Ident::is_number: the first character is an ASCII digit
is_number(ident) == ident # << >> /\ is_ascii_digit(ident[1])

\* Ident::last_is_exp
last_is_exp(ident) ==
  /\ is_number(ident)
  /\ LET last == ident[Len(ident)] IN
       IF last \in {Ord("p"), Ord("P")} THEN starts_with(ident, Str2Seq(<<"0", "x">>))
       ELSE IF last \in {Ord("e"), Ord("E")}
            THEN ~starts_with(ident, Str2Seq(<<"0", "x">>))
            ELSE FALSE

\* Token::from_char
from_char(ch, loc) == [kind |-> "Char", val |-> <<ch>>, loc |-> into_past(loc, 1)]

\* Token::from_number: the location is not rewound
from_number(literal, loc) == [kind |-> "Number", val |-> literal, loc |-> loc]

\* Token::from_str: rewound by the byte length of the string
from_str(str, loc) == [kind |-> "Str", val |-> str, loc |-> into_past(loc, byte_len(str))]

\* Token::from_symbol: rewound by the size of the symbol
from_symbol(symbol, size, loc) == [kind |-> "Symbol", val |-> symbol, loc |-> into_past(loc, size)]

\* the keyword table (Keyword::from_value_or_res), a representative part of it
KeywordTable == {Str2Seq(<<"d", "o">>), Str2Seq(<<"i", "f">>), Str2Seq(<<"i", "n", "t">>)}

\* the deprecated underscore keywords, a representative part of them
DeprecatedTable == {Str2Seq(<<"_", "B", "o", "o", "l">>)}

\* Keyword::from_value_or_res
from_value_or_res(value) ==
  IF value \in KeywordTable THEN "Success"
  ELSE IF value \in DeprecatedTable THEN "Deprecated" ELSE "Failure"

\* char::to_ascii_lowercase
to_ascii_lowercase(ch) == IF ch >= Ord("A") /\ ch <= Ord("Z") THEN ch + 32 ELSE ch

\* the replacement keyword named by the deprecation warning
new_keyword(value) ==
  [i \in 1..(Len(value) - 1) |-> IF i = 1 THEN to_ascii_lowercase(value[2]) ELSE value[i + 1]]

\* Token::from_identifier: the token
from_identifier(value, loc) ==
  [kind |-> IF from_value_or_res(value) = "Failure" THEN "Ident" ELSE "Keyword",
   val |-> value, loc |-> into_past(loc, byte_len(value))]

\* Token::from_identifier with the warning left at the location of the closing
\* character
from_identifier_errs_not_rewound(value, loc) ==
  IF from_value_or_res(value) = "Deprecated"
  THEN << [to_warning(loc, "Underscore operators are deprecated since C23")
            EXCEPT !.arg = new_keyword(value)] >>
  ELSE << >>

\* Token::from_identifier: the diagnostics it pushes
from_identifier_errs(value, loc) ==
  IF from_value_or_res(value) = "Deprecated"
  THEN << [to_warning(into_past(loc, byte_len(value)),
                       "Underscore operators are deprecated since C23")
            EXCEPT !.arg = new_keyword(value)] >>
  ELSE << >>

(***************************************************************************)
(* The symbol buffer (SymbolState): up to three pending operator           *)
(* characters, oldest first.                                               *)
(***************************************************************************)
\* the operators of three characters
Symbols3 ==
  { Str2Seq(<<"<", "<", "=">>), Str2Seq(<<">", ">", "=">>), Str2Seq(<<".", ".", ".">>),
    Str2Seq(<<"-", ">", "*">>) }

\* the operators of two characters
Symbols2 ==
  { Str2Seq(<<"-", ">">>), Str2Seq(<<"+", "+">>), Str2Seq(<<"-", "-">>),
    Str2Seq(<<"<", "<">>), Str2Seq(<<">", ">">>), Str2Seq(<<"&", "&">>),
    Str2Seq(<<"|", "|">>), Str2Seq(<<"<", "=">>), Str2Seq(<<">", "=">>),
    Str2Seq(<<"=", "=">>), Str2Seq(<<"!", "=">>), Str2Seq(<<"+", "=">>),
    Str2Seq(<<"-", "=">>), Str2Seq(<<"*", "=">>), Str2Seq(<<"/", "=">>),
    Str2Seq(<<"%", "=">>), Str2Seq(<<"&", "=">>), Str2Seq(<<"|", "=">>),
    Str2Seq(<<"^", "=">>) }

\* the operator characters of lex_char
OperatorChars ==
  { Ord(c) : c \in { "(", ")", "[", "]", "{", "}", "~", "!", "*", "&", "%", "/", ">", "<",
                     "=", "|", "^", ",", "?", ":", ";", ".", "+", "-" } }

\* SymbolState::try_to_operator: the size of the longest operator at the front of
\* the buffer (0 when the buffer is empty)
try_to_operator_size(buf) ==
  IF buf = << >> THEN 0
  ELSE IF Len(buf) >= 3 /\ SubSeq(buf, 1, 3) \in Symbols3 THEN 3
  ELSE IF Len(buf) >= 2 /\ SubSeq(buf, 1, 2) \in Symbols2 THEN 2
  ELSE 1

\* SymbolState::try_to_operator: the buffer left once the operator is taken
try_to_operator_rest(buf) == SubSeq(buf, try_to_operator_size(buf) + 1, Len(buf))

\* SymbolState::try_to_operator: the operator taken
try_to_operator_symbol(buf) == SubSeq(buf, 1, try_to_operator_size(buf))

\* SymbolState::last
symbol_last(buf) == IF buf = << >> THEN 0 ELSE buf[Len(buf)]

\* SymbolState::clear_last
clear_last(buf) == IF buf = << >> THEN buf ELSE SubSeq(buf, 1, Len(buf) - 1)

(***************************************************************************)
(* The lexing state.  LexingState: tag, with val the identifier, the       *)
(* symbol buffer or the literal of the char/string being read, and cs the  *)
(* comment state.  EscapeState: tag, with kind and val of a sequence.      *)
(* The lexing data m holds state, escape, tokens, errors, the end_line     *)
(* flag and, once the program has panicked, the panic message.             *)
(***************************************************************************)
StartOfLine == [tag |-> "StartOfLine", val |-> << >>, cs |-> "-"]
Identifier(ident) == [tag |-> "Identifier", val |-> ident, cs |-> "-"]
Symbols(buf) == [tag |-> "Symbols", val |-> buf, cs |-> "-"]
CharState(literal) == [tag |-> "Char", val |-> literal, cs |-> "-"]
StrState(literal) == [tag |-> "Str", val |-> literal, cs |-> "-"]
Comment(cs) == [tag |-> "Comment", val |-> << >>, cs |-> cs]

EscapeFalse == [tag |-> "False", kind |-> "-", val |-> << >>]
EscapeSingle == [tag |-> "Single", kind |-> "-", val |-> << >>]
EscapeSequence(kind, value) == [tag |-> "Sequence", kind |-> kind, val |-> value]

\* LexingData::default with LexingState::default and EscapeState::False
LexingDataDefault ==
  [state |-> StartOfLine, escape |-> EscapeFalse, tokens |-> << >>, errors |-> << >>,
   end_line |-> FALSE, panic |-> ""]

\* LexingData::push_token
push_token(m, token) == [m EXCEPT !.tokens = Append(@, token)]

\* LexingData::push_err
push_err(m, err) == [m EXCEPT !.errors = Append(@, err)]

\* panic!, assert! and expect: the first panic stops the program
panic(m, msg) == IF m.panic = "" THEN [m EXCEPT !.panic = msg] ELSE m

RECURSIVE end_operator_loop(_, _, _)
\* end_operator: the while loop, at most three passes
end_operator_loop(m, loc, idx) ==
  IF m.state.val # << >> /\ idx <= 2
  THEN IF try_to_operator_size(m.state.val) > 0
       THEN end_operator_loop(
              push_token([m EXCEPT !.state.val = try_to_operator_rest(m.state.val)],
                         from_symbol(try_to_operator_symbol(m.state.val),
                                     try_to_operator_size(m.state.val), loc)),
              loc, idx + 1)
       ELSE panic(m, "This can't happen, as lex_state is not empty!")
  ELSE m

\* end_operator: the assertion, after the loop, that the buffer is empty
end_operator_assert(r) ==
  IF r.panic = "" /\ r.state.val # << >> THEN panic(r, "Not possible: executing 3 times")
  ELSE r

\* end_operator with two passes of the loop
end_operator_two_passes(m, loc) == end_operator_assert(end_operator_loop(m, loc, 1))

\* end_operator: drain the symbol buffer, then assert that it is empty
end_operator(m, loc) == end_operator_assert(end_operator_loop(m, loc, 0))

\* literal_to_number: whether the literal is read as a number constant
well_formed_number(literal) ==
  /\ is_number(literal)
  /\ \A i \in 1..Len(literal) :
       \/ is_ascii_digit(literal[i])
       \/ literal[i] \in {DOT, PLUS, MINUS}
       \/ literal[i] \in {Ord(c) : c \in {"a", "b", "c", "d", "e", "f", "x", "p", "u", "l",
                                        "A", "B", "C", "D", "E", "F", "X", "P", "U", "L"}}

\* end_literal: an identifier or a number token for a non empty literal
end_literal(m, loc) ==
  IF m.state.val # << >>
  THEN IF well_formed_number(m.state.val)
       THEN push_token([m EXCEPT !.state.val = << >>], from_number(m.state.val, loc))
       ELSE LET errs == (IF is_number(m.state.val)
                         THEN << to_error(loc, "invalid number constant") >> ELSE << >>)
                        \o from_identifier_errs(m.state.val, loc)
            IN push_token([m EXCEPT !.state.val = << >>, !.errors = @ \o errs],
                          from_identifier(m.state.val, loc))
  ELSE m

\* end_string: the last token is popped; a Str is extended, anything else is lost
end_string(m, loc) ==
  IF m.state.val # << >>
  THEN IF m.tokens # << >>
       THEN LET last_token == m.tokens[Len(m.tokens)]
                popped == SubSeq(m.tokens, 1, Len(m.tokens) - 1)
            IN IF last_token.kind = "Str"
               THEN [m EXCEPT !.state.val = << >>,
                              !.tokens = Append(popped,
                                                from_str(last_token.val \o m.state.val, loc))]
               ELSE [m EXCEPT !.state.val = << >>,
                              !.tokens = Append(popped, from_str(m.state.val, loc))]
       ELSE [m EXCEPT !.state.val = << >>, !.tokens = << from_str(m.state.val, loc) >>]
  ELSE m

\* handle_single_quotes, closing quote: the literal must be one byte long
end_char(m, loc) ==
  IF byte_len(m.state.val) # 1 THEN panic(m, "Never should have pushed")
  ELSE push_token([m EXCEPT !.state.val = << >>], from_char(m.state.val[1], loc))

\* the state is given a new value unless the program has panicked
set_state(r, state) == IF r.panic # "" THEN r ELSE [r EXCEPT !.state = state]

\* end_current: the state left once the token is emitted
end_current_reset(r) ==
  IF r.state.tag \in {"StartOfLine", "Comment"} THEN r ELSE set_state(r, StartOfLine)

\* end_current: close the current state, emitting its token
end_current(m, loc) ==
  end_current_reset(CASE m.state.tag = "Symbols" -> end_operator(m, loc)
                      [] m.state.tag = "Identifier" -> end_literal(m, loc)
                      [] m.state.tag = "Char" -> end_char(m, loc)
                      [] m.state.tag = "Str" -> end_string(m, loc)
                      [] OTHER -> m)

(***************************************************************************)
(* lexer/special_chars.rs: escape sequences                                *)
(***************************************************************************)
\* char::is_ascii_octdigit
is_ascii_octdigit(ch) == ch >= Ord("0") /\ ch <= Ord("7")

\* char::is_ascii_hexdigit
is_ascii_hexdigit(ch) ==
  \/ is_ascii_digit(ch)
  \/ (ch >= Ord("a") /\ ch <= Ord("f"))
  \/ (ch >= Ord("A") /\ ch <= Ord("F"))

\* char::is_numeric, on the characters of the model
is_numeric(ch) == is_ascii_digit(ch)

\* char::to_digit(16)
digit_value(ch) ==
  IF is_ascii_digit(ch) THEN ch - Ord("0")
  ELSE IF ch >= Ord("a") /\ ch <= Ord("f") THEN ch - Ord("a") + 10
  ELSE ch - Ord("A") + 10

\* whether every character of the value is a digit of the radix
valid_digits(value, radix) ==
  \A i \in 1..Len(value) : is_ascii_hexdigit(value[i]) /\ digit_value(value[i]) < radix

RECURSIVE radix_value(_, _, _, _)
\* from_str_radix of valid digits, with acc the value read so far; a value above
\* limit is reported as limit + 1
radix_value(value, radix, limit, acc) ==
  IF value = << >> THEN acc
  ELSE IF acc * radix + digit_value(Head(value)) > limit THEN limit + 1
  ELSE radix_value(Tail(value), radix, limit, acc * radix + digit_value(Head(value)))

\* char::from_u32 is Some: a scalar value that is not a surrogate
is_char(int) == int <= 1114111 /\ ~(int >= 55296 /\ int <= 57343)

\* EscapeSequence::max_len
max_len(kind) ==
  CASE kind = "ShortUnicode" -> 4 [] kind = "Unicode" -> 8 [] kind = "Hexadecimal" -> 3
    [] kind = "Octal" -> 3

\* the result of closing or feeding an escape: the characters pushed into the
\* literal, the escape state left, the diagnostics pushed, a panic message, and
\* ok for the Result returned by end_escape_sequence
EscapeResult(ok, chars, escape, errs, msg) ==
  [ok |-> ok, chars |-> chars, escape |-> escape, errs |-> errs, panic |-> msg]

\* expect_min_length reporting the digits asked for instead of the digits found
expect_min_length_reports_size(size, value, kind, loc) ==
  IF Len(value) < size
  THEN << [to_error(loc, "must contain 4 digits, but found only")
             EXCEPT !.arg = <<size>>] >>
  ELSE << >>

\* expect_min_length: the diagnostics pushed; the message names 4 digits whatever
\* the size asked for
expect_min_length(size, value, kind, loc) ==
  IF Len(value) < size
  THEN << [to_error(loc, "must contain 4 digits, but found only")
             EXCEPT !.arg = <<Len(value)>>] >>
  ELSE << >>

\* end_unicode_sequence
end_unicode_sequence(escape, loc) ==
  LET int == radix_value(escape.val, 16, 1114111, 0) IN
    IF is_char(int) THEN EscapeResult(TRUE, <<int>>, EscapeFalse, << >>, "")
    ELSE EscapeResult(FALSE, << >>, escape,
                      << to_error(loc, "is not a valid unicode character") >>, "")

\* end_escape_sequence, octal digits, with the value cast to a byte whatever it is
end_octal_sequence_truncates(value, loc) ==
  IF ~valid_digits(value, 8)
  THEN EscapeResult(TRUE, << >>, EscapeFalse,
                    << to_error(loc, "Invalid octal escape sequence") >>, "")
  ELSE EscapeResult(TRUE, << radix_value(value, 8, 511, 0) % 256 >>, EscapeFalse, << >>, "")

\* end_escape_sequence, octal digits: the value as one byte, or, above 0o377, the
\* byte of the first two digits followed by the third digit
end_octal_sequence(value, loc) ==
  IF ~valid_digits(value, 8)
  THEN EscapeResult(TRUE, << >>, EscapeFalse,
                    << to_error(loc, "Invalid octal escape sequence") >>, "")
  ELSE IF Len(value) < 3 \/ radix_value(value, 8, 511, 0) <= 255
       THEN EscapeResult(TRUE, << radix_value(value, 8, 511, 0) % 256 >>, EscapeFalse,
                         << >>, "")
       ELSE EscapeResult(TRUE,
                         << radix_value(SubSeq(value, 1, 2), 8, 255, 0), value[3] >>,
                         EscapeFalse, << >>, "")

\* end_escape_sequence: on an early Err return the escape state is left as it was
end_escape_sequence(escape, loc) ==
  LET value == escape.val
      kind == escape.kind
      too_long == EscapeResult(FALSE, << >>, escape, << >>, "Never should have pushed here")
      too_short(size) ==
        EscapeResult(FALSE, << >>, escape, expect_min_length(size, value, kind, loc), "")
  IN
  CASE kind = "ShortUnicode" ->
         IF Len(value) > 4 THEN too_long
         ELSE IF expect_min_length(4, value, kind, loc) # << >> THEN too_short(4)
         ELSE end_unicode_sequence(escape, loc)
    [] kind = "Unicode" ->
         IF Len(value) <= 4
         THEN EscapeResult(FALSE, << >>, escape,
                << [to_error(loc, "must contain 8 hexadecimal digits, did you mean u")
                      EXCEPT !.arg = <<Len(value)>>] >>, "")
         ELSE IF Len(value) > 8 THEN too_long
         ELSE IF expect_min_length(8, value, kind, loc) # << >> THEN too_short(8)
         ELSE end_unicode_sequence(escape, loc)
    [] kind = "Hexadecimal" ->
         IF Len(value) > 3 THEN too_long
         ELSE IF expect_min_length(2, value, kind, loc) # << >> THEN too_short(2)
         ELSE IF radix_value(value, 16, 255, 0) > 255
              THEN EscapeResult(FALSE, << >>, escape, << >>,
                                "We push only numeric so this doesn't happen")
              ELSE EscapeResult(TRUE, << radix_value(value, 16, 255, 0) >>, EscapeFalse,
                                << >>, "")
    [] kind = "Octal" ->
         IF Len(value) > 3 THEN too_long
         ELSE IF expect_min_length(1, value, kind, loc) # << >> THEN too_short(1)
         ELSE end_octal_sequence(value, loc)
\* handle_escaped_sequence: the closing character is pushed into the literal when
\* end_escape_sequence returned Ok
push_if_ok(r, ch) == IF r.ok THEN [r EXCEPT !.chars = Append(@, ch)] ELSE r

\* handle_escaped_sequence: the value is closed once it has max_len digits
end_if_full(pushed, loc) ==
  IF Len(pushed.val) = max_len(pushed.kind) THEN end_escape_sequence(pushed, loc)
  ELSE EscapeResult(TRUE, << >>, pushed, << >>, "")

\* handle_escaped_sequence: a character read while a sequence is pending
handle_escaped_sequence(ch, escape, loc) ==
  IF ~is_ascii_hexdigit(ch) \/ (escape.kind = "Octal" /\ ~is_ascii_octdigit(ch))
  THEN push_if_ok(end_escape_sequence(escape, loc), ch)
  ELSE end_if_full([escape EXCEPT !.val = Append(@, ch)], loc)

\* the characters escaped by one character
EscapedChars ==
  { <<Ord("a"), 7>>, <<Ord("b"), 8>>, <<Ord("t"), 9>>, <<Ord("n"), 10>>, <<Ord("v"), 11>>,
    <<Ord("f"), 12>>, <<Ord("r"), 13>>, <<Ord("e"), 27>>, <<DQUOTE, 34>>, <<SQUOTE, 39>>,
    <<Ord("?"), 63>>, <<BACKSLASH, 92>>, <<0, 0>> }

\* handle_one_escaped_char: the character that follows the backslash
handle_one_escaped_char(ch, loc) ==
  IF \E p \in EscapedChars : p[1] = ch
  THEN EscapeResult(TRUE, << (CHOOSE p \in EscapedChars : p[1] = ch)[2] >>, EscapeFalse,
                    << >>, "")
  ELSE IF ch = Ord("u")
  THEN EscapeResult(TRUE, << >>, EscapeSequence("ShortUnicode", << >>), << >>, "")
  ELSE IF ch = Ord("U")
  THEN EscapeResult(TRUE, << >>, EscapeSequence("Unicode", << >>), << >>, "")
  ELSE IF ch \in {Ord("x"), Ord("h")}
  THEN EscapeResult(TRUE, << >>, EscapeSequence("Hexadecimal", << >>), << >>, "")
  ELSE IF is_numeric(ch)
  THEN EscapeResult(TRUE, << >>, EscapeSequence("Octal", <<ch>>), << >>, "")
  ELSE EscapeResult(TRUE, << >>, EscapeFalse,
                    << [to_error(loc, "can not be escaped") EXCEPT !.arg = <<ch>>] >>, "")

\* handle_escaped / handle_escape
handle_escape(ch, escape, loc) ==
  IF escape.tag = "Sequence" THEN handle_escaped_sequence(ch, escape, loc)
  ELSE handle_one_escaped_char(ch, loc)

(***************************************************************************)
(* lexer/lex_content.rs                                                    *)
(***************************************************************************)
\* lex_char, arm "Escaped character": the outcome of handle_escape is applied
apply_escape(m, r) ==
  IF r.panic # "" THEN panic([m EXCEPT !.errors = @ \o r.errs], r.panic)
  ELSE IF r.chars # << >>
       THEN [m EXCEPT !.errors = @ \o r.errs, !.escape = EscapeFalse,
                      !.state.val = @ \o r.chars]
       ELSE [m EXCEPT !.errors = @ \o r.errs, !.escape = r.escape]

\* lex_char, arm "Escaped character": feed the character to the escape handler
lex_char_escaped(ch, loc, m) == apply_escape(m, handle_escape(ch, m.escape, loc))

\* lex_char: operator characters, a full buffer giving its first character alone
lex_char_operator_one_character(ch, loc, m) ==
  IF m.state.tag = "Symbols"
  THEN IF Len(m.state.val) = 3
       THEN push_token(
              [m EXCEPT !.state.val = Append(SubSeq(m.state.val, 2, 3), ch)],
              from_symbol(SubSeq(m.state.val, 1, 1), 1, loc))
       ELSE [m EXCEPT !.state.val = Append(@, ch)]
  ELSE set_state(end_current(m, loc), Symbols(<<ch>>))

\* lex_char, arm "Operator symbols": SymbolState::push on a full buffer first takes
\* the operator at its front, then the character enters the buffer
lex_char_operator(ch, loc, m) ==
  IF m.state.tag = "Symbols"
  THEN IF Len(m.state.val) = 3
       THEN push_token(
              [m EXCEPT !.state.val = Append(try_to_operator_rest(m.state.val), ch)],
              from_symbol(try_to_operator_symbol(m.state.val),
                          try_to_operator_size(m.state.val), loc))
       ELSE [m EXCEPT !.state.val = Append(@, ch)]
  ELSE set_state(end_current(m, loc), Symbols(<<ch>>))

\* LexingData::set_end_line
set_end_line(r) == IF r.panic # "" THEN r ELSE [r EXCEPT !.end_line = TRUE]

\* lex_char: the match on (ch, lex_state, escape_state), arms in source order
lex_char(ch, loc, m, eol) ==
  LET st == m.state
      in_escape == m.escape.tag \in {"Single", "Sequence"}
      last_symbol == IF st.tag = "Symbols" THEN symbol_last(st.val) ELSE 0
  IN
  IF st.tag = "StartOfLine" /\ is_whitespace(ch) THEN m
  ELSE IF ch = SLASH /\ st.tag = "Comment" /\ st.cs = "Star"
    THEN [m EXCEPT !.state = Comment("False")]
  ELSE IF ch = STAR /\ st.tag = "Comment" /\ st.cs = "True"
    THEN [m EXCEPT !.state = Comment("Star")]
  ELSE IF st.tag = "Comment" /\ st.cs = "True" THEN m
  ELSE IF st.tag = "Comment" /\ st.cs = "Star" THEN [m EXCEPT !.state = Comment("True")]
  ELSE IF ((st.tag = "Char" /\ st.val = << >>) \/ st.tag = "Str") /\ in_escape
    THEN lex_char_escaped(ch, loc, m)
  ELSE IF in_escape
    THEN panic(m, "Can't happen because error raised on escape creation if wrong state.")
  ELSE IF ch = STAR /\ last_symbol = SLASH
    THEN set_state(end_current([m EXCEPT !.state.val = clear_last(@)], loc), Comment("True"))
  ELSE IF ch = BACKSLASH /\ ((st.tag = "Char" /\ st.val = << >>) \/ st.tag = "Str")
    THEN [m EXCEPT !.escape = EscapeSingle]
  ELSE IF ch = BACKSLASH /\ eol THEN [m EXCEPT !.escape = EscapeSingle]
  ELSE IF ch = BACKSLASH
    THEN push_err(m, to_error(loc, "Escape characters are only authorised in strings or chars"))
  ELSE IF ch = SQUOTE /\ st.tag = "Char" THEN end_current(m, loc)
  ELSE IF ch = SQUOTE /\ st.tag # "Str" THEN set_state(end_current(m, loc), CharState(<< >>))
  ELSE IF ch = DQUOTE /\ st.tag = "Str" THEN end_current(m, loc)
  ELSE IF ch = DQUOTE /\ st.tag # "Char" THEN set_state(end_current(m, loc), StrState(<< >>))
  ELSE IF st.tag = "Char" /\ st.val # << >>
    THEN push_err(m, to_error(loc, "A char must contain only one character."))
  ELSE IF st.tag = "Char" THEN [m EXCEPT !.state = CharState(<<ch>>)]
  ELSE IF st.tag = "Str" THEN [m EXCEPT !.state.val = Append(@, ch)]
  ELSE IF ch = SLASH /\ last_symbol = SLASH
    THEN set_end_line(end_current([m EXCEPT !.state.val = clear_last(@)], loc))
  ELSE IF ch = DOT /\ st.tag = "Identifier" /\ ~contains(st.val, DOT) /\ is_number(st.val)
    THEN [m EXCEPT !.state.val = Append(@, DOT)]
  ELSE IF ch \in {PLUS, MINUS} /\ st.tag = "Identifier" /\ ~contains(st.val, MINUS)
          /\ ~contains(st.val, PLUS) /\ last_is_exp(st.val)
    THEN [m EXCEPT !.state.val = Append(@, ch)]
  ELSE IF ch \in OperatorChars THEN lex_char_operator(ch, loc, m)
  ELSE IF is_whitespace(ch) THEN end_current(m, loc)
  ELSE IF st.tag = "Identifier"
          /\ (is_alphanumeric(ch) \/ ch \in {UNDERSCORE, DOT, PLUS, MINUS})
    THEN [m EXCEPT !.state.val = Append(@, ch)]
  ELSE IF is_alphanumeric(ch) \/ ch = UNDERSCORE
    THEN IF last_symbol = DOT /\ is_ascii_digit(ch)
         THEN set_state(end_current([m EXCEPT !.state.val = clear_last(@)], loc),
                        Identifier(<<Ord("0"), DOT, ch>>))
         ELSE set_state(end_current(m, loc), Identifier(<<ch>>))
  ELSE push_err(m, [to_error(loc, "Character not supported in context") EXCEPT !.arg = <<ch>>])

(***************************************************************************)
(* State of the program.                                                   *)
(***************************************************************************)
VARIABLES
  alphabet,   \* the characters the input text is written with
  budget,     \* characters of input text not yet handed out
  nlines,     \* lines of the content handed to lex_line so far
  line,       \* the line lex_line is reading
  idx,        \* index of the next character of the trimmed line (from 0)
  location,   \* the Location lex_file mutates
  lex,        \* lex_data, lex_state and escape_state
  pc,         \* position in lex_file / lex_line and then in the caller
  rewind,     \* Location::into_past: receiver, offset and result
  number,     \* the number parsers: literal, type and results
  parser      \* the parser: keyword being sorted, or tokens pushed and the Ast

vars == <<alphabet, budget, nlines, line, idx, location, lex, pc, rewind, number, parser>>

\* the input alphabets: the text of one run is written with one of them
Alphabets ==
  { {Ord("a"), BACKSLASH, SPACE, EAcute},
    {Ord("("), PLUS, Ord("a"), SPACE},
    {DQUOTE, EAcute, Ord("a"), SPACE},
    {SLASH, STAR, Ord("a"), BACKSLASH},
    {SQUOTE, DQUOTE, BACKSLASH, Ord("1")} }

\* the lines of at most n characters over the alphabet
Lines(chars, n) == UNION { [1..k -> chars] : k \in 0..n }

\* Location::into_past is idle in the lexer's runs
RewindIdle == [pc |-> "idle", loc |-> LocationFrom, offset |-> 0, result |-> LocationFrom]

\* the number parsers are idle in the lexer's runs
NumberIdle == [pc |-> "idle"]

\* the parser is idle in the lexer's runs
ParserIdle == [pc |-> "idle"]

\* the state in which lex_file is called: a fresh Location and default lexing data
Init ==
  /\ alphabet \in Alphabets
  /\ budget = MaxChars
  /\ nlines = 0
  /\ line = << >>
  /\ idx = 0
  /\ location = LocationFrom
  /\ lex = LexingDataDefault
  /\ pc = "lines"
  /\ rewind = RewindIdle
  /\ number = NumberIdle
  /\ parser = ParserIdle

\* lex_line with the escape state of the line before
lex_line_newline_keeps_escape(m) == [m EXCEPT !.end_line = FALSE]

\* lex_line, entry: LexingData::newline and a fresh escape state for the line
lex_line_newline(m) == [m EXCEPT !.end_line = FALSE, !.escape = EscapeFalse]

\* lex_file hands the next line of the content to lex_line; lex_line returns at
\* once on a line that is empty once trimmed, and lex_file advances the line
LexLineStart ==
  /\ pc = "lines"
  /\ nlines < MaxLines
  /\ \E ln \in Lines(alphabet, budget) :
       /\ line' = ln
       /\ budget' = budget - Len(ln)
       /\ lex' = lex_line_newline(lex)
       /\ IF trim_end(ln) = << >>
          THEN /\ pc' = "lines"
               /\ location' = incr_line(location)
          ELSE /\ pc' = "chars"
               /\ location' = location
  /\ nlines' = nlines + 1
  /\ idx' = 0
  /\ UNCHANGED <<alphabet, rewind, number, parser>>

\* one pass of the for loop of lex_line: lex_char, incr_col, break on end_line
LexCharStep ==
  /\ pc = "chars"
  /\ LET trimed == trim_end(line)
         last == byte_len(trimed) - 1
     IN /\ lex' = lex_char(trimed[idx + 1], location, lex, idx = last)
        /\ IF lex'.panic # ""
           THEN /\ pc' = "panicked"
                /\ UNCHANGED <<location, idx>>
           ELSE /\ location' = incr_col(location)
                /\ idx' = idx + 1
                /\ pc' = IF lex'.end_line \/ idx + 1 = Len(trimed) THEN "eol" ELSE "chars"
  /\ UNCHANGED <<alphabet, budget, nlines, line, rewind, number, parser>>

\* str::ends_with(char)
ends_with(s, ch) == s # << >> /\ s[Len(s)] = ch

\* lex_line after the loop: a line that ends with a backslash keeps the state
lex_line_reset(ln, loc, r) ==
  IF r.panic # "" THEN r
  ELSE IF ends_with(trim_end(ln), BACKSLASH)
       THEN IF is_whitespace(ln[Len(ln)])
            THEN push_err(r, to_suggestion(loc, "found white space after '\\' at EOL"))
            ELSE r
       ELSE [r EXCEPT !.state = StartOfLine]

\* lex_line after the loop: the token is closed unless the escape state is Single
lex_line_end(ln, loc, m) ==
  lex_line_reset(ln, loc, IF m.escape # EscapeSingle THEN end_current(m, loc) ELSE m)

LexLineEnd ==
  /\ pc = "eol"
  /\ lex' = lex_line_end(line, location, lex)
  /\ IF lex'.panic # ""
     THEN pc' = "panicked" /\ UNCHANGED location
     ELSE pc' = "lines" /\ location' = incr_line(location)
  /\ UNCHANGED <<alphabet, budget, nlines, line, idx, rewind, number, parser>>

\* lex_file returns Res::from((tokens, errors)) once the content has no more line
LexFileReturn ==
  /\ pc = "lines"
  /\ pc' = "lexed"
  /\ UNCHANGED <<alphabet, budget, nlines, line, idx, location, lex, rewind, number, parser>>

\* the caller unwraps the result with Res::unwrap_or_display
UnwrapOrDisplay ==
  /\ pc = "lexed"
  /\ pc' = IF unwrap_or_display(lex.errors) THEN "returned" ELSE "aborted"
  /\ UNCHANGED <<alphabet, budget, nlines, line, idx, location, lex, rewind, number, parser>>

Next == LexLineStart \/ LexCharStep \/ LexLineEnd \/ LexFileReturn \/ UnwrapOrDisplay

Spec == Init /\ [][Next]_vars

(***************************************************************************)
(* Location::into_past on its own: every column and offset within bounds.  *)
(***************************************************************************)
InitLoc ==
  /\ alphabet = {}
  /\ budget = 0
  /\ nlines = 0
  /\ line = << >>
  /\ idx = 0
  /\ location = LocationFrom
  /\ lex = LexingDataDefault
  /\ pc = "idle"
  /\ number = NumberIdle
  /\ parser = ParserIdle
  /\ \E l \in 1..MaxLines, c \in 1..MaxCol, k \in 0..(MaxCol + 1) :
       rewind = [pc |-> "call", loc |-> [line |-> l, col |-> c], offset |-> k,
                 result |-> [line |-> l, col |-> c]]

\* location.into_past(offset)
IntoPast ==
  /\ rewind.pc = "call"
  /\ rewind' = [rewind EXCEPT !.pc = "done", !.result = into_past(rewind.loc, rewind.offset)]
  /\ UNCHANGED <<alphabet, budget, nlines, line, idx, location, lex, pc, number, parser>>

NextLoc == IntoPast

SpecLoc == InitLoc /\ [][NextLoc]_vars

(***************************************************************************)
(* lexer/numbers: parse results and the integer parsers.                   *)
(***************************************************************************)
\* i32::MAX, the greatest value of NumberType::Int
IntMax == 2147483647

\* the characters number literals are written with in the model
NumberChars == {Ord("1"), Ord("9")}

\* the number types of the model: one integer type and the unsupported one
NumberTypes == {"Int", "LongDouble"}

\* the five variants of OverParseRes; val is 0 and err is NoError when absent
NoError == [level |-> "none", msg |-> "", arg |-> << >>, loc |-> LocationFrom]
OverErr(err) == [kind |-> "Err", val |-> 0, err |-> err]
OverOverflow == [kind |-> "Overflow", val |-> 0, err |-> NoError]
OverValue(val) == [kind |-> "Value", val |-> val, err |-> NoError]
OverValueErr(val, err) == [kind |-> "ValueErr", val |-> val, err |-> err]
OverValueOverflow(val) == [kind |-> "ValueOverflow", val |-> val, err |-> NoError]
OverPanic(msg) == [kind |-> "Panic", val |-> 0, err |-> [NoError EXCEPT !.msg = msg]]

\* OverParseRes::from_pos_overflow
from_pos_overflow == OverOverflow

\* OverParseRes::add_overflow
add_overflow(res) == IF res.kind = "Value" THEN OverValueOverflow(res.val) ELSE res

\* OverParseRes::ignore_overflow with ValueOverflow turned into a plain Value
ignore_overflow_drops_warning(res, value, loc) ==
  IF res.kind \in {"ValueOverflow", "Value"} THEN [kind |-> "Value", val |-> res.val, err |-> NoError]
  ELSE IF res.kind = "Overflow"
  THEN [kind |-> "Err", val |-> 0,
        err |-> [to_error(loc, "Overflow: too big in traditional number") EXCEPT !.arg = value]]
  ELSE res

\* OverParseRes::ignore_overflow: the ParseRes
ignore_overflow(res, value, loc) ==
  CASE res.kind = "ValueOverflow" ->
         [kind |-> "ValueErr", val |-> res.val,
          err |-> [to_warning(loc, "Overflow: too big in traditional number")
                     EXCEPT !.arg = value]]
    [] res.kind = "Overflow" ->
         [kind |-> "Err", val |-> 0,
          err |-> [to_error(loc, "Overflow: too big in traditional number")
                     EXCEPT !.arg = value]]
    [] res.kind = "Value" -> [kind |-> "Value", val |-> res.val, err |-> NoError]
    [] res.kind = "Err" -> [kind |-> "Err", val |-> 0, err |-> res.err]
    [] res.kind = "ValueErr" -> [kind |-> "ValueErr", val |-> res.val, err |-> res.err]
    [] OTHER -> res

RECURSIVE checked_value(_, _, _, _)
\* from_str_radix / str::parse of valid digits with checked_mul and checked_add:
\* the value, or -1 on a positive overflow of max
checked_value(literal, radix, max, acc) ==
  IF literal = << >> THEN acc
  ELSE IF acc > max \div radix THEN -1
  ELSE IF acc * radix > max - digit_value(Head(literal)) THEN -1
  ELSE checked_value(Tail(literal), radix, max, acc * radix + digit_value(Head(literal)))

\* safe_parse_int!: the outcome of an integer parse as an OverParseRes
safe_parse_int(literal, radix, max, loc) ==
  IF ~valid_digits(literal, radix) THEN OverErr(to_failure(loc, "invalid number"))
  ELSE IF checked_value(literal, radix, max, 0) = -1 THEN from_pos_overflow
  ELSE OverValue(checked_value(literal, radix, max, 0))

\* to_decimal_value (parse_number!)
to_decimal_value(literal, nb_type, loc) ==
  IF nb_type = "LongDouble"
  THEN OverErr(to_error(loc, "long double not supported yet."))
  ELSE safe_parse_int(literal, 10, IntMax, loc)

\* to_oct_value
to_oct_value(literal, nb_type, loc) ==
  IF \A i \in 1..Len(literal) : is_ascii_octdigit(literal[i])
  THEN IF nb_type = "LongDouble"
       THEN OverErr(to_error(loc, "an octal must be an integer"))
       ELSE safe_parse_int(literal, 8, IntMax, loc)
  ELSE IF \E i \in 1..Len(literal) : is_ascii_octdigit(literal[i])
       THEN OverErr([to_failure(loc, "a octal constant must only contain digits between '0' and '7'. Found invalid character")
                       EXCEPT !.arg = << literal[CHOOSE i \in 1..Len(literal) :
                                                   /\ is_ascii_octdigit(literal[i])
                                                   /\ \A j \in 1..(i - 1) :
                                                        ~is_ascii_octdigit(literal[j])] >>])
       ELSE OverPanic("Exists according to line above")

\* the number literals of the model: 1 to MaxDigits digits
Literals == UNION { [1..k -> NumberChars] : k \in 1..MaxDigits }

\* parse results handed to ignore_overflow directly, one or more of each variant
OverParseResSamples ==
  { OverOverflow, OverValue(0), OverValue(IntMax), OverValueOverflow(IntMax),
    OverValueOverflow(1), OverErr(to_error(LocationFrom, "invalid number")),
    OverValueErr(1, to_warning(LocationFrom, "warning")),
    OverValueErr(IntMax, to_error(LocationFrom, "error")) }

NoParseRes == [kind |-> "none", val |-> 0, err |-> NoError]

InitNum ==
  /\ alphabet = {}
  /\ budget = 0
  /\ nlines = 0
  /\ line = << >>
  /\ idx = 0
  /\ location = LocationFrom
  /\ lex = LexingDataDefault
  /\ pc = "idle"
  /\ rewind = RewindIdle
  /\ parser = ParserIdle
  /\ \/ \E lit \in Literals, t \in NumberTypes :
          number = [pc |-> "literal", fn |-> "none", literal |-> lit, nb_type |-> t,
                    res |-> NoParseRes, pres |-> NoParseRes]
     \/ \E r \in OverParseResSamples, lit \in {<<Ord("1")>>, <<Ord("9"), Ord("9")>>} :
          number = [pc |-> "parsed", fn |-> "given", literal |-> lit, nb_type |-> "Int",
                    res |-> r, pres |-> NoParseRes]

\* to_decimal_value(literal, nb_type, location)
ToDecimalValue ==
  /\ number.pc = "literal"
  /\ number' = [number EXCEPT !.pc = "parsed", !.fn = "decimal",
                  !.res = to_decimal_value(number.literal, number.nb_type, location)]
  /\ UNCHANGED <<alphabet, budget, nlines, line, idx, location, lex, pc, rewind, parser>>

\* to_oct_value(literal, nb_type, location)
ToOctValue ==
  /\ number.pc = "literal"
  /\ number' = [number EXCEPT !.pc = IF to_oct_value(number.literal, number.nb_type,
                                                      location).kind = "Panic"
                                     THEN "panicked" ELSE "parsed",
                  !.fn = "octal",
                  !.res = to_oct_value(number.literal, number.nb_type, location)]
  /\ UNCHANGED <<alphabet, budget, nlines, line, idx, location, lex, pc, rewind, parser>>

\* res.add_overflow()
AddOverflow ==
  /\ number.pc = "parsed"
  /\ number.res.kind = "Value"
  /\ number' = [number EXCEPT !.res = add_overflow(number.res)]
  /\ UNCHANGED <<alphabet, budget, nlines, line, idx, location, lex, pc, rewind, parser>>

\* res.ignore_overflow(literal, location)
IgnoreOverflow ==
  /\ number.pc = "parsed"
  /\ number' = [number EXCEPT !.pc = "ignored",
                  !.pres = ignore_overflow(number.res, number.literal, location)]
  /\ UNCHANGED <<alphabet, budget, nlines, line, idx, location, lex, pc, rewind, parser>>

NextNum == ToDecimalValue \/ ToOctValue \/ AddOverflow \/ IgnoreOverflow

SpecNum == InitNum /\ [][NextNum]_vars

(***************************************************************************)
(* The lexer on texts of one line with a given shape: literals with an     *)
(* escape, number-shaped identifiers, identifiers and keywords, and the    *)
(* inputs the documentation gives as examples.                             *)
(***************************************************************************)
\* the digits escape sequences are written with
EscapeDigits == {Ord("0"), Ord("1"), Ord("7"), Ord("f")}

\* the digits that follow the first character of an escape: 0 to MaxEscapeDigits
EscapeBodies == UNION { [1..k -> EscapeDigits] : k \in 0..MaxEscapeDigits }

\* the character right after the backslash
EscapeHeads ==
  { Ord(c) : c \in {"x", "h", "u", "U", "1", "7", "8", "9", "q", "n"} }

\* what precedes the backslash: an opening quote, with or without a string before it
EscapeOpens ==
  { <<DQUOTE>>, <<SQUOTE>>, Str2Seq(<<"\"", "a", "\"", " ", "\"">>) }

\* what follows the escape
EscapeCloses ==
  { << >>, <<DQUOTE>>, <<SQUOTE>>, Str2Seq(<<"g", "\"">>), Str2Seq(<<"\\", "n", "\"">>) }

\* the lines with one escape in a char or string literal
EscapeLines ==
  { o \o <<BACKSLASH, h>> \o b \o c :
      o \in EscapeOpens, h \in EscapeHeads, b \in EscapeBodies, c \in EscapeCloses }

\* "\x41\x42" "C"
ExampleStrings == Str2Seq(<<"\"", "\\", "x", "4", "1", "\\", "x", "4", "2", "\"", " ",
                            "\"", "C", "\"">>)

\* '\u00e'
ExampleShortUnicode == Str2Seq(<<"'", "\\", "u", "0", "0", "e", "'">>)

\* 0x1p+3, 0X1P+3, 0xe+1 and 0XE+1
ExampleHexExponent == Str2Seq(<<"0", "x", "1", "p", "+", "3">>)
ExampleUpperHexExponent == Str2Seq(<<"0", "X", "1", "P", "+", "3">>)
ExampleHexDigitE == Str2Seq(<<"0", "x", "e", "+", "1">>)
ExampleUpperHexDigitE == Str2Seq(<<"0", "X", "E", "+", "1">>)

\* the number-shaped identifiers with a sign: 0, a radix prefix or none, digits,
\* an exponent marker or none, the sign, and what follows it
NumberLines ==
  { <<Ord("0")>> \o x \o d \o m \o s \o t :
      x \in { << >>, <<Ord("x")>>, <<Ord("X")>> },
      d \in { << >>, <<Ord("1")>>, <<Ord("e")>>, <<Ord("E")>> },
      m \in { << >>, <<Ord("e")>>, <<Ord("E")>>, <<Ord("p")>>, <<Ord("P")>> },
      s \in { <<PLUS>>, <<MINUS>> },
      t \in { << >>, <<Ord("1")>>, <<Ord("3")>>, <<PLUS, Ord("3")>>,
              <<Ord("e"), MINUS, Ord("1")>> } }

\* _Bool x;
ExampleDeprecated == Str2Seq(<<"_", "B", "o", "o", "l", " ", "x", ";">>)

\* identifiers, keywords and deprecated underscore keywords
IdentWords ==
  { Str2Seq(<<"_", "B", "o", "o", "l">>), Str2Seq(<<"b", "o", "o", "l">>),
    Str2Seq(<<"_", "B", "o", "o">>), Str2Seq(<<"i", "n", "t">>), Str2Seq(<<"i", "f">>),
    Str2Seq(<<"x">>) }

\* one word, closed by the end of the line, a space and a word, or a semicolon
IdentLines ==
  IdentWords
    \cup { w \o <<SPACE>> \o v : w \in IdentWords, v \in IdentWords }
    \cup { w \o <<Ord(";")>> : w \in IdentWords }

\* the runs of one to MaxSymbols operator characters
OperatorRuns ==
  UNION { [1..k -> {Ord("<"), Ord("="), Ord(">"), PLUS, MINUS, DOT}] : k \in 1..MaxSymbols }

\* a run of operator characters, alone or between two identifiers
OperatorLines ==
  OperatorRuns \cup { <<Ord("a")>> \o run \o <<Ord("b")>> : run \in OperatorRuns }

\* a string literal holding \U and up to eight hexadecimal digits
UnicodeLines ==
  { <<DQUOTE, BACKSLASH, Ord("U")>> \o digits \o <<DQUOTE>> :
      digits \in UNION { [1..k -> {Ord("0"), Ord("1")}] : k \in 0..8 } }

\* a character literal of one character, of one or two bytes, followed by up to
\* two more characters before its closing quote
CharLines ==
  { <<SQUOTE, first>> \o more \o <<SQUOTE>> :
      first \in {Ord("a"), EAcute},
      more \in UNION { [1..k -> {Ord("b"), SPACE, DQUOTE, PLUS}] : k \in 0..2 } }

\* a block comment whose body holds no slash, followed by an identifier
CommentLines ==
  { <<SLASH, STAR>> \o body \o <<STAR, SLASH, Ord("b")>> :
      body \in UNION { [1..k -> {Ord("a"), STAR, SPACE}] : k \in 0..3 } }

\* a string literal holding a unicode escape of full length whose value is not a
\* scalar value (\ud800, \U00110000), followed by up to two more characters
InvalidScalarLines ==
  { <<DQUOTE, BACKSLASH>> \o escape \o more \o <<DQUOTE>> :
      escape \in { Str2Seq(<<"u", "d", "8", "0", "0">>),
                   Str2Seq(<<"U", "0", "0", "1", "1", "0", "0", "0", "0">>) },
      more \in UNION { [1..k -> {Ord("0"), Ord("g")}] : k \in 0..2 } }

\* x = "a"
ExampleAssign == Str2Seq(<<"x", " ", "=", " ", "\"", "a", "\"">>)

\* '' (a character literal without a character)
ExampleEmptyChar == <<SQUOTE, SQUOTE>>

\* the inputs given as examples
ExampleLines ==
  { ExampleStrings, ExampleShortUnicode, ExampleHexExponent, ExampleUpperHexExponent,
    ExampleHexDigitE, ExampleUpperHexDigitE, ExampleDeprecated, ExampleAssign,
    ExampleEmptyChar }

\* the lines of the texts of one line
GivenLines ==
  EscapeLines \cup NumberLines \cup IdentLines \cup OperatorLines \cup UnicodeLines
    \cup CharLines \cup CommentLines \cup InvalidScalarLines
    \cup ExampleLines

\* the state in which lex_file is called on a text of one line
InitText ==
  /\ alphabet = {}
  /\ budget = 1
  /\ nlines = 0
  /\ line = << >>
  /\ idx = 0
  /\ location = LocationFrom
  /\ lex = LexingDataDefault
  /\ pc = "lines"
  /\ rewind = RewindIdle
  /\ number = NumberIdle
  /\ parser = ParserIdle

\* lex_file hands the line of the content to lex_line
LexLineGiven ==
  /\ pc = "lines"
  /\ budget = 1
  /\ \E ln \in GivenLines :
       /\ line' = ln
       /\ lex' = lex_line_newline(lex)
       /\ IF trim_end(ln) = << >>
          THEN /\ pc' = "lines"
               /\ location' = incr_line(location)
          ELSE /\ pc' = "chars"
               /\ location' = location
  /\ budget' = 0
  /\ nlines' = nlines + 1
  /\ idx' = 0
  /\ UNCHANGED <<alphabet, rewind, number, parser>>

NextText == LexLineGiven \/ LexCharStep \/ LexLineEnd \/ LexFileReturn \/ UnwrapOrDisplay

SpecText == InitText /\ [][NextText]_vars


(***************************************************************************)
(* The parser: the sorting of keywords (KeywordParsing::from) and the      *)
(* insertion of operators and leaves in the Ast.  A node is a record with  *)
(* tag Empty, Leaf (val), Unary (op, arg), Binary (op, arg_l, arg_r),      *)
(* Ternary (op, condition, success, failure) or ListInitialiser (full,     *)
(* elts); an Empty argument is a missing operand and a failure of tag None *)
(* is a ternary whose colon has not been read.                             *)
(***************************************************************************)
\* the variants of Keyword matched by KeywordParsing::from
Keywords ==
  { "True", "False", "Null", "Nullptr",
    "Sizeof", "Typeof", "TypeofUnqual", "Alignof", "UAlignof", "StaticAssert",
    "UStaticAssert",
    "Do", "If", "For", "Case", "Else", "Goto", "While", "Break", "Return", "Switch",
    "Continue", "Default",
    "Enum", "Union", "Struct", "Typedef",
    "Int", "Long", "Auto", "Char", "Void", "Short", "Float", "Const", "Inline",
    "Double", "Signed", "Extern", "Static", "UAtomic", "UBigInt", "Unsigned",
    "Register", "Restrict", "Volatile", "UComplex", "UGeneric", "UNoreturn",
    "Constexpr", "UDecimal64", "UImaginary", "UDecimal32", "UDecimal128",
    "Alignas", "UAlignas", "Bool", "UBool", "ThreadLocal", "UThreadLocal" }

\* KeywordParsing::from with default a case label in every context
default_parsing_always_label(case_context) ==
  [family |-> "CtrlFlow", kind |-> "Default"]

\* KeywordParsing::from on Keyword::Default: the guarded arm, then the attribute arm
default_parsing(case_context) ==
  IF case_context
  THEN [family |-> "CtrlFlow", kind |-> "Default"]
  ELSE [family |-> "Attr", kind |-> "Default"]

\* impl From<(Keyword, bool)> for KeywordParsing
keyword_parsing(keyword, case_context) ==
  CASE keyword = "True" -> [family |-> "True", kind |-> "True"]
    [] keyword = "False" -> [family |-> "False", kind |-> "False"]
    [] keyword \in {"Null", "Nullptr"} -> [family |-> "Nullptr", kind |-> "Nullptr"]
    [] keyword \in {"Sizeof", "Typeof", "TypeofUnqual"} ->
         [family |-> "Func", kind |-> keyword]
    [] keyword \in {"Alignof", "UAlignof"} -> [family |-> "Func", kind |-> "Alignof"]
    [] keyword \in {"StaticAssert", "UStaticAssert"} ->
         [family |-> "Func", kind |-> "StaticAssert"]
    [] keyword \in {"Do", "If", "For", "Case", "Else", "Goto", "While", "Break",
                    "Return", "Switch", "Continue"} ->
         [family |-> "CtrlFlow", kind |-> keyword]
    [] keyword = "Default" -> default_parsing(case_context)
    [] keyword \in {"Enum", "Union", "Struct", "Typedef"} ->
         [family |-> "CtrlFlow", kind |-> keyword]
    [] keyword \in {"Int", "Long", "Auto", "Char", "Void", "Short", "Float", "Const",
                    "Inline", "Double", "Signed", "Extern", "Static", "UAtomic",
                    "UBigInt", "Unsigned", "Register", "Restrict", "Volatile",
                    "UComplex", "UGeneric", "UNoreturn", "Constexpr", "UDecimal64",
                    "UImaginary", "UDecimal32", "UDecimal128"} ->
         [family |-> "Attr", kind |-> keyword]
    [] keyword \in {"Alignas", "UAlignas"} -> [family |-> "Attr", kind |-> "Alignas"]
    [] keyword \in {"Bool", "UBool"} -> [family |-> "Attr", kind |-> "Bool"]
    [] keyword \in {"ThreadLocal", "UThreadLocal"} ->
         [family |-> "Attr", kind |-> "ThreadLocal"]

\* the variants of UnaryOperator
UnaryOperators ==
  { "AddressOf", "BitwiseNot", "Indirection", "LogicalNot", "Minus", "Plus",
    "PostfixDecrement", "PostfixIncrement", "PrefixDecrement", "PrefixIncrement" }

\* UnaryOperator::associativity
associativity(op) ==
  IF op \in {"PostfixIncrement", "PostfixDecrement"}
  THEN "LeftToRight"
  ELSE "RightToLeft"

\* UnaryOperator::precedence with the postfix operators at the level of the
\* prefix ones
precedence_postfix_as_prefix(op) ==
  2

\* UnaryOperator::precedence
precedence(op) ==
  IF op \in {"PostfixIncrement", "PostfixDecrement"}
  THEN 1
  ELSE 2

\* the binary operators pushed by the model, with their precedence and
\* associativity
binary_operator(op) ==
  CASE op = "Multiply" -> [precedence |-> 3, associativity |-> "LeftToRight"]
    [] op = "Add" -> [precedence |-> 4, associativity |-> "LeftToRight"]
    [] op = "Comma" -> [precedence |-> 15, associativity |-> "LeftToRight"]

\* impl Operator for TernaryOperator, associating from left to right
ternary_operator_left_to_right ==
  [precedence |-> 13, associativity |-> "LeftToRight"]

\* impl Operator for TernaryOperator
ternary_operator ==
  [precedence |-> 13, associativity |-> "RightToLeft"]

\* the Operator trait of a unary, binary or ternary operator
operator(op) ==
  IF op \in UnaryOperators
  THEN [precedence |-> precedence(op), associativity |-> associativity(op)]
  ELSE IF op = "Ternary" THEN ternary_operator ELSE binary_operator(op)

\* the argument of the node that continues its right spine: the operand read
\* last, or the last element of a list initialiser that is still open
last_argument(node) ==
  CASE node.tag = "Unary" -> node.arg
    [] node.tag = "Binary" -> node.arg_r
    [] node.tag = "Ternary" ->
         IF node.failure.tag = "None" THEN node.success ELSE node.failure
    [] node.tag = "ListInitialiser" -> node.elts[Len(node.elts)]

\* the node with that argument replaced
with_last_argument(node, arg) ==
  CASE node.tag = "Unary" -> [node EXCEPT !.arg = arg]
    [] node.tag = "Binary" -> [node EXCEPT !.arg_r = arg]
    [] node.tag = "Ternary" ->
         IF node.failure.tag = "None"
         THEN [node EXCEPT !.success = arg]
         ELSE [node EXCEPT !.failure = arg]
    [] node.tag = "ListInitialiser" -> [node EXCEPT !.elts[Len(node.elts)] = arg]

\* the node is a list initialiser whose closing brace has not been read
open_list(node) ==
  node.tag = "ListInitialiser" /\ ~node.full

\* no operand is missing on the right spine of the node
RECURSIVE complete(_)
complete(node) ==
  CASE node.tag = "Empty" -> FALSE
    [] node.tag = "Leaf" -> TRUE
    [] node.tag = "Unary" -> complete(node.arg)
    [] node.tag = "Binary" -> complete(node.arg_r)
    [] node.tag = "Ternary" -> complete(last_argument(node))
    [] node.tag = "ListInitialiser" ->
         node.full \/ (node.elts # << >> /\ complete(last_argument(node)))

\* the node with its current hole, the missing operand of the right spine,
\* replaced by the block
RECURSIVE fill_hole(_, _)
fill_hole(node, block) ==
  CASE node.tag = "Empty" -> block
    [] node.tag = "Leaf" -> node
    [] node.tag = "Unary" -> [node EXCEPT !.arg = fill_hole(node.arg, block)]
    [] node.tag = "Binary" -> [node EXCEPT !.arg_r = fill_hole(node.arg_r, block)]
    [] node.tag = "Ternary" ->
         with_last_argument(node, fill_hole(last_argument(node), block))
    [] node.tag = "ListInitialiser" ->
         IF node.full THEN node
         ELSE IF node.elts = << >> THEN [node EXCEPT !.elts = << block >>]
         ELSE with_last_argument(node, fill_hole(last_argument(node), block))

\* Node::push_block_as_leaf: the block fills the current hole; an error, and the
\* node as it was, when there is none
push_block_as_leaf(node, block) ==
  IF complete(node)
  THEN [ok |-> FALSE, node |-> node]
  ELSE [ok |-> TRUE, node |-> fill_hole(node, block)]

\* the operator placed above the deepest node of the right spine that it may
\* bind as its left operand: it goes below an operator that binds less tightly,
\* and below one of equal precedence when it associates from right to left
RECURSIVE bind_left(_, _)
bind_left(node, op) ==
  LET bound == IF op \in UnaryOperators
               THEN [tag |-> "Unary", op |-> op, arg |-> node]
               ELSE IF op = "Ternary"
               THEN [tag |-> "Ternary", op |-> op, condition |-> node,
                     success |-> [tag |-> "Empty"], failure |-> [tag |-> "None"]]
               ELSE [tag |-> "Binary", op |-> op, arg_l |-> node,
                     arg_r |-> [tag |-> "Empty"]]
      deeper == \/ operator(op).precedence < operator(node.op).precedence
                \/ /\ operator(op).precedence = operator(node.op).precedence
                   /\ operator(op).associativity = "RightToLeft"
  IN  CASE node.tag = "Leaf" -> bound
        [] node.tag = "Unary" ->
             IF deeper /\ associativity(node.op) = "RightToLeft"
             THEN [node EXCEPT !.arg = bind_left(node.arg, op)]
             ELSE bound
        [] node.tag = "Binary" ->
             IF deeper
             THEN [node EXCEPT !.arg_r = bind_left(node.arg_r, op)]
             ELSE bound
        [] node.tag = "Ternary" ->
             IF deeper \/ node.failure.tag = "None"
             THEN with_last_argument(node, bind_left(last_argument(node), op))
             ELSE bound
        [] node.tag = "ListInitialiser" ->
             IF node.full
             THEN bound
             ELSE with_last_argument(node, bind_left(last_argument(node), op))

\* Node::push_op: a prefix operator takes the place of the current hole, with
\* its argument missing; a binary or postfix operator needs a filled operand on
\* its left; an error, and the node as it was, otherwise
push_op(node, op) ==
  IF op \in UnaryOperators /\ associativity(op) = "RightToLeft"
  THEN IF complete(node)
       THEN [ok |-> FALSE, node |-> node]
       ELSE [ok |-> TRUE,
             node |-> fill_hole(node, [tag |-> "Unary", op |-> op,
                                       arg |-> [tag |-> "Empty"]])]
  ELSE IF complete(node)
       THEN [ok |-> TRUE, node |-> bind_left(node, op)]
       ELSE [ok |-> FALSE, node |-> node]

\* handle_double_binary pushing the unary operator after the binary one
handle_double_binary_pushes_both(current, bin_op, un_op) ==
  IF push_op(current, bin_op).ok
  THEN push_op(push_op(current, bin_op).node, un_op)
  ELSE push_op(current, un_op)

\* handle_double_binary: the binary operator, or else the unary one
handle_double_binary(current, bin_op, un_op) ==
  IF push_op(current, bin_op).ok
  THEN push_op(current, bin_op)
  ELSE push_op(current, un_op)

\* handle_double_unary: the first unary operator, or else the second
handle_double_unary(current, first, second) ==
  IF push_op(current, first).ok
  THEN push_op(current, first)
  ELSE push_op(current, second)

\* the colon of a ternary: the innermost ternary of the right spine whose colon
\* has not been read gets a missing failure; an error when there is none
RECURSIVE push_colon(_)
push_colon(node) ==
  IF \/ node.tag \in {"Empty", "Leaf"}
     \/ node.tag = "ListInitialiser" /\ (node.full \/ node.elts = << >>)
  THEN [ok |-> FALSE, node |-> node]
  ELSE IF push_colon(last_argument(node)).ok
  THEN [ok |-> TRUE,
        node |-> with_last_argument(node, push_colon(last_argument(node)).node)]
  ELSE IF node.tag = "Ternary" /\ node.failure.tag = "None" /\ complete(node.success)
  THEN [ok |-> TRUE, node |-> [node EXCEPT !.failure = [tag |-> "Empty"]]]
  ELSE [ok |-> FALSE, node |-> node]

\* Node::apply_to_last_list_initialiser: the innermost open list initialiser of
\* the right spine gets an Empty element ("push") or is closed ("close"); an
\* error, and the node as it was, when the right spine has no open list
RECURSIVE apply_to_last_list_initialiser(_, _)
apply_to_last_list_initialiser(node, f) ==
  LET here == IF f = "push"
              THEN [node EXCEPT !.elts = Append(@, [tag |-> "Empty"])]
              ELSE [node EXCEPT !.full = TRUE]
  IN  IF node.tag \in {"Empty", "Leaf"} \/ (node.tag = "ListInitialiser" /\ node.full)
      THEN [ok |-> FALSE, node |-> node]
      ELSE IF open_list(node) /\ node.elts = << >>
      THEN [ok |-> TRUE, node |-> here]
      ELSE IF apply_to_last_list_initialiser(last_argument(node), f).ok
      THEN [ok |-> TRUE,
            node |-> with_last_argument(node,
                       apply_to_last_list_initialiser(last_argument(node), f).node)]
      ELSE IF open_list(node)
      THEN [ok |-> TRUE, node |-> here]
      ELSE [ok |-> FALSE, node |-> node]

\* handle_comma pushing the operator in every case
handle_comma_always_operator(current) ==
  push_op(current, "Comma")

\* handle_comma: a new Empty element in the last list initialiser, or else the
\* Comma operator, whose error is returned
handle_comma(current) ==
  IF apply_to_last_list_initialiser(current, "push").ok
  THEN apply_to_last_list_initialiser(current, "push")
  ELSE push_op(current, "Comma")

\* a ? b : c ? d : e
ExampleTernary == <<"a", "?", "b", ":", "c", "?", "d", ":", "e">>

\* sequences of tokens pushed beyond the bound on free sequences
GivenTokens ==
  { ExampleTernary,
    <<"p", "?", "q", ":", "p", "?", "q", ":", "p", "+", "q">>,
    <<"p", "?", "p", "?", "q", ":", "p", ":", "q">>,
    <<"{", "p", ",", "{", "q", ",", "p", "}", ",", "q", "}", ",", "p">>,
    <<"p", "?", "{", "p", ",", "q", "}", ":", "q", ",", "p">> }

\* the token may be pushed next: any sequence of at most MaxTokens tokens with
\* the variables p and q, and the given sequences
can_push(token) ==
  /\ parser.pc = "tokens"
  /\ \/ Len(parser.pushed) < MaxTokens /\ token \notin {"a", "b", "c", "d", "e"}
     \/ \E given \in GivenTokens :
          /\ Len(given) > Len(parser.pushed)
          /\ SubSeq(given, 1, Len(parser.pushed) + 1) = Append(parser.pushed, token)

\* the parser is given a keyword and its context to sort, or an empty Ast to
\* push tokens in
InitParser ==
  /\ alphabet = {}
  /\ budget = 0
  /\ nlines = 0
  /\ line = << >>
  /\ idx = 0
  /\ location = LocationFrom
  /\ lex = LexingDataDefault
  /\ pc = "idle"
  /\ rewind = RewindIdle
  /\ number = NumberIdle
  /\ \/ \E keyword \in Keywords, case_context \in BOOLEAN :
          parser = [pc |-> "keyword", keyword |-> keyword,
                    case_context |-> case_context]
     \/ parser = [pc |-> "tokens", pushed |-> << >>, ast |-> [tag |-> "Empty"]]

\* KeywordParsing::from((keyword, case_context))
SortKeyword ==
  /\ parser.pc = "keyword"
  /\ parser' = [pc |-> "sorted", keyword |-> parser.keyword,
                case_context |-> parser.case_context,
                parsing |-> keyword_parsing(parser.keyword, parser.case_context)]
  /\ UNCHANGED <<alphabet, budget, nlines, line, idx, location, lex, pc, rewind, number>>

\* the parser after a push of the token: it stops at the first error
pushed_token(token, res) ==
  [pc |-> IF res.ok THEN "tokens" ELSE "failed",
   pushed |-> Append(parser.pushed, token), ast |-> res.node]

\* a variable is pushed as a leaf, and an opening brace as an empty list
\* initialiser
PushBlockAsLeaf ==
  /\ \/ \E name \in {"p", "q", "a", "b", "c", "d", "e"} :
          /\ can_push(name)
          /\ parser' = pushed_token(name, push_block_as_leaf(parser.ast,
                                            [tag |-> "Leaf", val |-> name]))
     \/ /\ can_push("{")
        /\ parser' = pushed_token("{", push_block_as_leaf(parser.ast,
                        [tag |-> "ListInitialiser", full |-> FALSE, elts |-> << >>]))
  /\ UNCHANGED <<alphabet, budget, nlines, line, idx, location, lex, pc, rewind, number>>

\* the symbols * and + are pushed with handle_double_binary
HandleDoubleBinary ==
  /\ \E symbol \in {<<"*", "Multiply", "Indirection">>, <<"+", "Add", "Plus">>} :
       /\ can_push(symbol[1])
       /\ parser' = pushed_token(symbol[1],
                              handle_double_binary(parser.ast, symbol[2], symbol[3]))
  /\ UNCHANGED <<alphabet, budget, nlines, line, idx, location, lex, pc, rewind, number>>

\* the symbols ++ and -- are pushed with handle_double_unary
HandleDoubleUnary ==
  /\ \E symbol \in {<<"++", "PostfixIncrement", "PrefixIncrement">>,
                    <<"--", "PostfixDecrement", "PrefixDecrement">>} :
       /\ can_push(symbol[1])
       /\ parser' = pushed_token(symbol[1],
                              handle_double_unary(parser.ast, symbol[2], symbol[3]))
  /\ UNCHANGED <<alphabet, budget, nlines, line, idx, location, lex, pc, rewind, number>>

\* the symbols !, ~ and ? are pushed with push_op
PushOp ==
  /\ \E symbol \in {<<"!", "LogicalNot">>, <<"~", "BitwiseNot">>, <<"?", "Ternary">>} :
       /\ can_push(symbol[1])
       /\ parser' = pushed_token(symbol[1], push_op(parser.ast, symbol[2]))
  /\ UNCHANGED <<alphabet, budget, nlines, line, idx, location, lex, pc, rewind, number>>

\* the colon of a ternary
PushColon ==
  /\ can_push(":")
  /\ parser' = pushed_token(":", push_colon(parser.ast))
  /\ UNCHANGED <<alphabet, budget, nlines, line, idx, location, lex, pc, rewind, number>>

\* the closing brace of a list initialiser
CloseBrace ==
  /\ can_push("}")
  /\ parser' = pushed_token("}", apply_to_last_list_initialiser(parser.ast, "close"))
  /\ UNCHANGED <<alphabet, budget, nlines, line, idx, location, lex, pc, rewind, number>>

\* the symbol , is pushed with handle_comma
HandleComma ==
  /\ can_push(",")
  /\ parser' = pushed_token(",", handle_comma(parser.ast))
  /\ UNCHANGED <<alphabet, budget, nlines, line, idx, location, lex, pc, rewind, number>>

NextParser ==
  \/ SortKeyword
  \/ PushBlockAsLeaf
  \/ HandleDoubleBinary
  \/ HandleDoubleUnary
  \/ PushOp
  \/ PushColon
  \/ CloseBrace
  \/ HandleComma

SpecParser == InitParser /\ [][NextParser]_vars


(***************************************************************************)
(* Properties of the lexer (Spec), of into_past (SpecLoc) and of the       *)
(* number parsers (SpecNum).                                               *)
(***************************************************************************)
\* a diagnostic of level Error is among the collected ones
has_error(errs) == \E i \in 1..Len(errs) : is_error(errs[i])

\* (line, col) of a is at or before (line, col) of b
loc_le(a, b) == a.line < b.line \/ (a.line = b.line /\ a.col <= b.col)

\* the literal holds only digits of the radix and its value exceeds max
exceeds(literal, radix, max) ==
  valid_digits(literal, radix) /\ checked_value(literal, radix, max, 0) = -1

\* C1: when lex_file has returned, the lexing state is StartOfLine with an
\* empty symbol buffer: no identifier and no symbol is still pending, also
\* when the last line ends with a backslash.
C1_LexFileEndsAtStartOfLine ==
  pc = "lexed" => (lex.state.tag = "StartOfLine" /\ lex.state.val = << >>)

\* C2: in the token list lex_file returns, the locations never decrease in
\* (line, col) order from one token to the next.
C2_TokenLocationsNonDecreasing ==
  pc = "lexed" =>
    \A i \in 1..(Len(lex.tokens) - 1) : loc_le(lex.tokens[i].loc, lex.tokens[i + 1].loc)

\* C3: every token the lexer has emitted is located at a line >= 1 and a
\* column >= 1, whatever the length its location was rewound by.
C3_TokenLocationsPositive ==
  \A i \in 1..Len(lex.tokens) : lex.tokens[i].loc.line >= 1 /\ lex.tokens[i].loc.col >= 1

\* C4: into_past(k) keeps the line and gives the column max(col - k, 1), for
\* every col >= 1 and k >= 0, k = col included.
C4_IntoPastSaturatesAtOne ==
  rewind.pc = "done" =>
    /\ rewind.result.line = rewind.loc.line
    /\ rewind.result.col = IF rewind.loc.col - rewind.offset >= 1
                           THEN rewind.loc.col - rewind.offset ELSE 1

\* C5: the first character of every line is lexed at column 1, and the line
\* number is the number of the line in the file.
C5_LineStartsAtColumnOne ==
  (pc = "chars" /\ idx = 0) => (location.col = 1 /\ location.line = nlines)

\* C6: the run of unwrap_or_display aborts iff a diagnostic of level Error
\* was collected; warnings alone let it return the result.
C6_AbortsIffErrorLevel ==
  pc \in {"returned", "aborted"} => (pc = "aborted" <=> has_error(lex.errors))

\* C7: at the end of a line that ends with a backslash outside a char or a
\* string, the lexing state is carried over unchanged and no token is closed.
C7_ContinuationKeepsState ==
  [][(/\ pc = "eol"
      /\ ends_with(trim_end(line), BACKSLASH)
      /\ lex.state.tag \notin {"Char", "Str"}
      /\ pc' = "lines")
     => (lex'.state = lex.state /\ lex'.tokens = lex.tokens)]_vars

\* C8: an octal literal with a character outside 0..7 gives an Err result
\* of to_oct_value, never a panic, also when it has no octal digit at all.
C8_InvalidOctalIsErr ==
  (/\ number.fn = "octal"
   /\ \E i \in 1..Len(number.literal) : ~is_ascii_octdigit(number.literal[i]))
  => (number.pc = "parsed" /\ number.res.kind = "Err")

\* C9: a decimal integer literal that exceeds its number type ends, after
\* ignore_overflow, as the type's maximum together with one Warning.
C9_OverflowIsClampedWarning ==
  (/\ number.pc = "ignored"
   /\ number.fn = "decimal"
   /\ number.nb_type = "Int"
   /\ exceeds(number.literal, 10, IntMax))
  => /\ number.pres.kind = "ValueErr"
     /\ number.pres.val = IntMax
     /\ number.pres.err.level = "warning"

last_is_str(tokens) == tokens # << >> /\ tokens[Len(tokens)].kind = "Str"

\* a step that closes the string literal being read
string_closes == lex.state.tag = "Str" /\ lex'.state.tag # "Str" /\ lex'.panic = ""

\* C11: when a string literal closes and the last token emitted is a Str, that
\* token is replaced by one Str holding the previous content followed by the new
\* content; "\x41\x42" "C" is lexed as the single token Str("ABC").
C11_AdjacentStringsConcatenate ==
  [][/\ (string_closes /\ last_is_str(lex.tokens)) =>
          /\ Len(lex'.tokens) = Len(lex.tokens)
          /\ SubSeq(lex'.tokens, 1, Len(lex.tokens) - 1)
               = SubSeq(lex.tokens, 1, Len(lex.tokens) - 1)
          /\ lex'.tokens[Len(lex.tokens)].kind = "Str"
          /\ lex'.tokens[Len(lex.tokens)].val
               = lex.tokens[Len(lex.tokens)].val \o lex.state.val
     /\ (line = ExampleStrings /\ pc' = "lexed") =>
          /\ Len(lex'.tokens) = 1
          /\ lex'.tokens[1].kind = "Str"
          /\ lex'.tokens[1].val = Str2Seq(<<"A", "B", "C">>)]_vars

\* the character lex_char reads in the next pass of the loop of lex_line
next_char == trim_end(line)[idx + 1]

\* a well-formed escape buffer is pending in a literal and the next character
\* is not a digit of it
escape_closed_by_next ==
  /\ pc = "chars"
  /\ lex.state.tag \in {"Str", "Char"}
  /\ lex.escape.tag = "Sequence"
  /\ \/ /\ lex.escape.kind = "Hexadecimal"
        /\ Len(lex.escape.val) = 2
        /\ ~is_ascii_hexdigit(next_char)
     \/ /\ lex.escape.kind = "Octal"
        /\ valid_digits(lex.escape.val, 8)
        /\ ~is_ascii_octdigit(next_char)

\* C12: the character that closes an escape buffer is then lexed by the rules of
\* the enclosing literal: a closing quote closes the literal and a backslash
\* starts a new escape.
C12_ClosingCharFallsThrough ==
  [][escape_closed_by_next =>
       /\ (next_char = DQUOTE /\ lex.state.tag = "Str") => lex'.state.tag # "Str"
       /\ (next_char = SQUOTE /\ lex.state.tag = "Char") => lex'.state.tag # "Char"
       /\ next_char = BACKSLASH => lex'.escape.tag = "Single"]_vars

\* a \u buffer of fewer than 4 digits is pending and the next character is no
\* hexadecimal digit
short_unicode_closed_by_next ==
  /\ pc = "chars"
  /\ lex.state.tag \in {"Str", "Char"}
  /\ lex.escape.tag = "Sequence"
  /\ lex.escape.kind = "ShortUnicode"
  /\ Len(lex.escape.val) < 4
  /\ ~is_ascii_hexdigit(next_char)

\* the diagnostic "must contain 4 digits, but found only n" of level Error
is_found_only(err, n) ==
  /\ err.level = "error"
  /\ err.msg = "must contain 4 digits, but found only"
  /\ err.arg = <<n>>

\* C13: closing a \u escape that holds n < 4 digits pushes exactly one Error,
\* "must contain 4 digits, but found only n", and no character into the literal.
C13_ShortUnicodeTooShort ==
  [][short_unicode_closed_by_next =>
       /\ Len(lex'.errors) = Len(lex.errors) + 1
       /\ SubSeq(lex'.errors, 1, Len(lex.errors)) = lex.errors
       /\ is_found_only(lex'.errors[Len(lex'.errors)], Len(lex.escape.val))
       /\ lex'.state = lex.state
       /\ lex'.tokens = lex.tokens
       /\ lex'.panic = ""]_vars

\* '\u00e' has been read up to its closing quote: one error, found only 3
C13_Witness ==
  /\ line = ExampleShortUnicode
  /\ idx = Len(ExampleShortUnicode)
  /\ Len(lex.errors) = 1
  /\ is_found_only(lex.errors[1], 3)
  /\ lex.state = CharState(<< >>)

\* the value of the digits of a hexadecimal escape of at most three digits
hex_value(value) == radix_value(value, 16, 4095, 0)

\* C14: a hexadecimal escape closed with 2 or 3 digits pushes the character holding
\* its value truncated to one byte and never aborts, values above 0xFF included;
\* closed with fewer than 2 digits it pushes an error and no character.
C14_HexEscapeTruncates ==
  [][(/\ pc = "chars"
      /\ lex.state.tag \in {"Str", "Char"}
      /\ lex.escape.tag = "Sequence"
      /\ lex.escape.kind = "Hexadecimal") =>
       /\ lex'.panic = ""
       /\ (Len(lex.escape.val) = 2 /\ is_ascii_hexdigit(next_char)) =>
            lex'.state.val = lex.state.val \o << hex_value(Append(lex.escape.val, next_char)) % 256 >>
       /\ (Len(lex.escape.val) = 2 /\ ~is_ascii_hexdigit(next_char)) =>
            /\ Len(lex'.state.val) > Len(lex.state.val)
            /\ lex'.state.val[Len(lex.state.val) + 1] = hex_value(lex.escape.val)
       /\ (Len(lex.escape.val) < 2 /\ ~is_ascii_hexdigit(next_char)) =>
            /\ Len(lex'.errors) = Len(lex.errors) + 1
            /\ lex'.state.val = lex.state.val]_vars

\* the value of one, two or three octal digits
octal_digits_value(d) ==
  IF Len(d) = 1 THEN d[1] - Ord("0")
  ELSE IF Len(d) = 2 THEN 8 * (d[1] - Ord("0")) + (d[2] - Ord("0"))
  ELSE 64 * (d[1] - Ord("0")) + 8 * (d[2] - Ord("0")) + (d[3] - Ord("0"))

\* an octal escape buffer of octal digits is pending in a literal
octal_pending ==
  /\ pc = "chars"
  /\ lex.state.tag \in {"Str", "Char"}
  /\ lex.escape.tag = "Sequence"
  /\ lex.escape.kind = "Octal"
  /\ \A i \in 1..Len(lex.escape.val) : is_ascii_octdigit(lex.escape.val[i])

\* C15: an octal escape of three digits pushes one character with its value when
\* the value is at most 0o377, and otherwise the character of the first two
\* digits followed by the third digit; one closed after one or two digits
\* pushes the character with its value.
C15_OctalEscapeReinterprets ==
  [][octal_pending =>
       /\ (Len(lex.escape.val) = 2 /\ is_ascii_octdigit(next_char)) =>
            /\ lex'.panic = ""
            /\ lex'.escape = EscapeFalse
            /\ lex'.state.val =
                 IF octal_digits_value(Append(lex.escape.val, next_char)) <= 255
                 THEN lex.state.val \o << octal_digits_value(Append(lex.escape.val, next_char)) >>
                 ELSE lex.state.val \o << octal_digits_value(lex.escape.val), next_char >>
       /\ (Len(lex.escape.val) \in {1, 2} /\ ~is_ascii_octdigit(next_char)) =>
            /\ lex'.panic = ""
            /\ Len(lex'.state.val) > Len(lex.state.val)
            /\ SubSeq(lex'.state.val, 1, Len(lex.state.val) + 1)
                 = lex.state.val \o << octal_digits_value(lex.escape.val) >>]_vars

\* "\777 has been read: the byte 0o77 and then the digit 7
C15_Witness ==
  /\ Len(line) >= 5
  /\ SubSeq(line, 1, 5) = Str2Seq(<<"\"", "\\", "7", "7", "7">>)
  /\ idx = 5
  /\ lex.state = StrState(<<63, Ord("7")>>)
  /\ lex.escape = EscapeFalse

\* the characters of the escape table: the one-character escapes, the heads of the
\* unicode and hexadecimal sequences and the octal digits
in_escape_table(ch) ==
  \/ \E p \in EscapedChars : p[1] = ch
  \/ ch \in {Ord("u"), Ord("U"), Ord("x"), Ord("h")}
  \/ is_ascii_octdigit(ch)

\* C16: after a backslash in a char or string, only a digit 0-7 starts an octal
\* buffer; a character outside the escape table, 8 and 9 included, pushes the
\* error "cannot be escaped", starts no sequence and pushes no character.
C16_OnlyOctalDigitsStartOctal ==
  [][(/\ pc = "chars"
      /\ lex.state.tag \in {"Str", "Char"}
      /\ lex.escape = EscapeSingle) =>
       /\ is_ascii_octdigit(next_char) => lex'.escape = EscapeSequence("Octal", <<next_char>>)
       /\ (lex'.escape.tag = "Sequence" /\ lex'.escape.kind = "Octal")
            => is_ascii_octdigit(next_char)
       /\ ~in_escape_table(next_char) =>
            /\ Len(lex'.errors) = Len(lex.errors) + 1
            /\ lex'.errors[Len(lex'.errors)].level = "error"
            /\ lex'.errors[Len(lex'.errors)].msg = "can not be escaped"
            /\ lex'.escape = EscapeFalse
            /\ lex'.state = lex.state]_vars

\* the identifier starts with the hexadecimal prefix 0x or 0X
has_hex_prefix(ident) ==
  Len(ident) >= 2 /\ ident[1] = Ord("0") /\ ident[2] \in {Ord("x"), Ord("X")}

\* the last character of the identifier is the exponent marker of its radix
ends_with_exponent_marker(ident) ==
  IF has_hex_prefix(ident) THEN ident[Len(ident)] \in {Ord("p"), Ord("P")}
  ELSE ident[Len(ident)] \in {Ord("e"), Ord("E")}

\* the tokens are one token holding the whole text
one_token_of(tokens, text) == Len(tokens) = 1 /\ tokens[1].val = text

\* C17: in a number-shaped identifier a sign is appended iff the last character is
\* the exponent marker of the radix (e/E decimal, p/P after 0x or 0X) and no sign
\* is there yet, and otherwise starts a symbol; 0x1p+3 and 0X1P+3 are one token
\* each, 0xe+1 and 0XE+1 three tokens each.
C17_SignAfterExponentMarker ==
  [][/\ (/\ pc = "chars"
         /\ lex.state.tag = "Identifier"
         /\ is_number(lex.state.val)
         /\ next_char \in {PLUS, MINUS}) =>
          IF /\ ends_with_exponent_marker(lex.state.val)
             /\ ~contains(lex.state.val, PLUS)
             /\ ~contains(lex.state.val, MINUS)
          THEN lex'.state = Identifier(Append(lex.state.val, next_char))
          ELSE lex'.state = Symbols(<<next_char>>)
     /\ (pc' = "lexed" /\ line = ExampleHexExponent) => one_token_of(lex'.tokens, line)
     /\ (pc' = "lexed" /\ line = ExampleUpperHexExponent) => one_token_of(lex'.tokens, line)
     /\ (pc' = "lexed" /\ line \in {ExampleHexDigitE, ExampleUpperHexDigitE}) =>
          Len(lex'.tokens) = 3]_vars

\* a step that closes the identifier being read and emits its token
identifier_closes ==
  /\ lex.state.tag = "Identifier"
  /\ ~is_number(lex.state.val)
  /\ lex'.state # lex.state
  /\ Len(lex'.tokens) = Len(lex.tokens) + 1

\* the deprecation warning of an identifier that starts at the given column
is_deprecation_warning(err, ident, col) ==
  /\ err.level = "warning"
  /\ err.msg = "Underscore operators are deprecated since C23"
  /\ err.loc = [line |-> location.line, col |-> col]
  /\ err.arg = << to_ascii_lowercase(ident[2]) >> \o SubSeq(ident, 3, Len(ident))

\* C18: when an identifier closes, a deprecated underscore keyword gives a Keyword
\* token and exactly one Warning, located at the start of the identifier and
\* naming the keyword without its underscore and with its first letter in lower
\* case; another keyword or a plain identifier gives no diagnostic.
C18_DeprecatedKeywordWarns ==
  [][identifier_closes =>
       IF lex.state.val \in DeprecatedTable
       THEN /\ lex'.tokens[Len(lex'.tokens)].kind = "Keyword"
            /\ Len(lex'.errors) = Len(lex.errors) + 1
            /\ is_deprecation_warning(lex'.errors[Len(lex'.errors)], lex.state.val,
                                      location.col - Len(lex.state.val))
       ELSE /\ lex'.errors = lex.errors
            /\ lex'.tokens[Len(lex'.tokens)].kind
                 = IF lex.state.val \in KeywordTable THEN "Keyword" ELSE "Ident"]_vars

\* _Bool x; has been lexed: Keyword, one warning at column 1 naming bool
C18_Witness ==
  /\ pc = "lexed"
  /\ line = ExampleDeprecated
  /\ lex.tokens[1].kind = "Keyword"
  /\ Len(lex.errors) = 1
  /\ lex.errors[1].level = "warning"
  /\ lex.errors[1].loc = [line |-> 1, col |-> 1]
  /\ lex.errors[1].arg = Str2Seq(<<"b", "o", "o", "l">>)

\* C19: the sorting of keywords is defined on every keyword and context; default
\* is the control-flow case label exactly when case_context holds and an
\* attribute otherwise, and every other keyword is sorted alike in both contexts.
C19_DefaultDependsOnContext ==
  parser.pc = "sorted" =>
    /\ parser.parsing.family \in {"Attr", "CtrlFlow", "False", "Func", "Nullptr", "True"}
    /\ parser.keyword = "Default" =>
         /\ parser.parsing = [family |-> "CtrlFlow", kind |-> "Default"]
              <=> parser.case_context
         /\ parser.parsing = [family |-> "Attr", kind |-> "Default"]
              <=> ~parser.case_context
    /\ parser.keyword # "Default" =>
         parser.parsing = keyword_parsing(parser.keyword, ~parser.case_context)

\* default has been sorted in a switch body
C19_Witness ==
  /\ parser.pc = "sorted"
  /\ parser.keyword = "Default"
  /\ parser.case_context
  /\ parser.parsing.family = "CtrlFlow"

\* a step that pushes ++ or -- as a postfix operator on a prefix operator whose
\* operand is filled
postfix_on_prefix ==
  /\ parser.pc = "tokens"
  /\ parser'.pc = "tokens"
  /\ parser.ast.tag = "Unary"
  /\ associativity(parser.ast.op) = "RightToLeft"
  /\ complete(parser.ast)
  /\ parser'.pushed[Len(parser'.pushed)] \in {"++", "--"}

\* *p++
indirection_of_increment ==
  [tag |-> "Unary", op |-> "Indirection",
   arg |-> [tag |-> "Unary", op |-> "PostfixIncrement",
            arg |-> [tag |-> "Leaf", val |-> "p"]]]

\* C20: a postfix ++ or -- binds tighter than a prefix operator: pushed after a
\* prefix operator and its operand it goes below the prefix operator, which stays
\* the root; pushing *, p, ++ builds Unary(Indirection, Unary(PostfixIncrement, p)).
C20_PostfixBindsTighter ==
  [][/\ postfix_on_prefix =>
          /\ parser'.ast.tag = "Unary"
          /\ parser'.ast.op = parser.ast.op
          /\ parser'.ast.arg # parser.ast.arg
     /\ parser'.pc # "idle" /\ parser'.pc # "keyword" /\ parser'.pc # "sorted"
          /\ parser'.pushed = <<"*", "p", "++">> =>
          /\ parser'.pc = "tokens"
          /\ parser'.ast = indirection_of_increment]_vars

\* *, p, ++ have been pushed and the increment is the operand of the indirection
C20_Witness ==
  /\ parser.pc = "tokens"
  /\ parser.pushed = <<"*", "p", "++">>
  /\ parser.ast = indirection_of_increment

\* a step that pushes ? on a ternary whose three operands are filled, the
\* failure being a variable
second_ternary ==
  /\ parser.pc = "tokens"
  /\ parser'.pc = "tokens"
  /\ parser'.pushed[Len(parser'.pushed)] = "?"
  /\ parser.ast.tag = "Ternary"
  /\ parser.ast.failure.tag = "Leaf"

\* Ternary(a, b, Ternary(c, d, e))
ternary_in_failure ==
  [tag |-> "Ternary", op |-> "Ternary",
   condition |-> [tag |-> "Leaf", val |-> "a"],
   success |-> [tag |-> "Leaf", val |-> "b"],
   failure |-> [tag |-> "Ternary", op |-> "Ternary",
                condition |-> [tag |-> "Leaf", val |-> "c"],
                success |-> [tag |-> "Leaf", val |-> "d"],
                failure |-> [tag |-> "Leaf", val |-> "e"]]]

\* C21: the ternary operator has precedence 13 and associates from right to left:
\* a second ? pushed after a complete ternary makes a ternary in its failure
\* branch, with the former failure as condition, and a ? b : c ? d : e builds
\* Ternary(a, b, Ternary(c, d, e)).
C21_TernaryNestsInFailure ==
  [][/\ ternary_operator.precedence = 13
     /\ second_ternary =>
          /\ parser'.ast.tag = "Ternary"
          /\ parser'.ast.condition = parser.ast.condition
          /\ parser'.ast.success = parser.ast.success
          /\ parser'.ast.failure.tag = "Ternary"
          /\ parser'.ast.failure.condition = parser.ast.failure
     /\ parser'.pc \in {"tokens", "failed"} /\ parser'.pushed = ExampleTernary =>
          /\ parser'.pc = "tokens"
          /\ parser'.ast = ternary_in_failure]_vars

\* a ? b : c ? d : e has been pushed
C21_Witness ==
  /\ parser.pc = "tokens"
  /\ parser.pushed = ExampleTernary
  /\ parser.ast = ternary_in_failure

\* the right spine of the node goes through a list initialiser that is still open
RECURSIVE in_list(_)
in_list(node) ==
  CASE node.tag \in {"Empty", "Leaf"} -> FALSE
    [] node.tag = "ListInitialiser" -> ~node.full
    [] OTHER -> in_list(last_argument(node))

\* the elements of the innermost open list initialiser of the right spine
RECURSIVE last_list_elts(_)
last_list_elts(node) ==
  IF open_list(node) /\ (node.elts = << >> \/ ~in_list(last_argument(node)))
  THEN node.elts
  ELSE last_list_elts(last_argument(node))

\* the number of Comma operators of the node and of the nodes
RECURSIVE comma_operators(_), comma_operators_of(_)
comma_operators(node) ==
  CASE node.tag \in {"Empty", "Leaf", "None"} -> 0
    [] node.tag = "Unary" -> comma_operators(node.arg)
    [] node.tag = "Binary" ->
         (IF node.op = "Comma" THEN 1 ELSE 0)
           + comma_operators(node.arg_l) + comma_operators(node.arg_r)
    [] node.tag = "Ternary" ->
         comma_operators(node.condition) + comma_operators(node.success)
           + comma_operators(node.failure)
    [] node.tag = "ListInitialiser" -> comma_operators_of(node.elts)

comma_operators_of(nodes) ==
  IF nodes = << >>
  THEN 0
  ELSE comma_operators(Head(nodes)) + comma_operators_of(Tail(nodes))

\* a step that pushes a comma
comma_pushed ==
  /\ parser.pc = "tokens"
  /\ parser'.pc \in {"tokens", "failed"}
  /\ parser'.pushed[Len(parser'.pushed)] = ","

\* C22: a comma read while the current hole is in a list initialiser appends one
\* Empty element to the innermost open list and pushes no operator; elsewhere it
\* pushes the Comma operator, and the push's error is the result.
C22_CommaInListInitialiser ==
  [][comma_pushed =>
       IF in_list(parser.ast)
       THEN /\ parser'.pc = "tokens"
            /\ last_list_elts(parser'.ast)
                 = Append(last_list_elts(parser.ast), [tag |-> "Empty"])
            /\ comma_operators(parser'.ast) = comma_operators(parser.ast)
       ELSE IF push_op(parser.ast, "Comma").ok
       THEN /\ parser'.pc = "tokens"
            /\ parser'.ast = push_op(parser.ast, "Comma").node
            /\ comma_operators(parser'.ast) = comma_operators(parser.ast) + 1
       ELSE /\ parser'.pc = "failed"
            /\ parser'.ast = parser.ast]_vars

\* { p , has been pushed: the list holds p and an Empty element
C22_Witness ==
  /\ parser.pc = "tokens"
  /\ parser.pushed = <<"{", "p", ",">>
  /\ parser.ast = [tag |-> "ListInitialiser", full |-> FALSE,
                   elts |-> << [tag |-> "Leaf", val |-> "p"], [tag |-> "Empty"] >>]

\* the two operators of a symbol pushed with handle_double_binary or
\* handle_double_unary
double_operators(symbol) ==
  CASE symbol = "*" -> <<"Multiply", "Indirection">>
    [] symbol = "+" -> <<"Add", "Plus">>
    [] symbol = "++" -> <<"PostfixIncrement", "PrefixIncrement">>
    [] symbol = "--" -> <<"PostfixDecrement", "PrefixDecrement">>

\* the step pushes a symbol that has two operators: the outcome is that of the
\* first operator when its push succeeds, and else that of the second operator
\* pushed on the tree as it was
double_pushed(first, second) ==
  /\ push_op(parser.ast, first).ok =>
       parser'.pc = "tokens" /\ parser'.ast = push_op(parser.ast, first).node
  /\ ~push_op(parser.ast, first).ok =>
       /\ parser'.ast = push_op(parser.ast, second).node
       /\ parser'.pc = "tokens" <=> push_op(parser.ast, second).ok
  /\ parser'.pc = "tokens"
       <=> push_op(parser.ast, first).ok \/ push_op(parser.ast, second).ok

continuation_with_space ==
  /\ pc = "eol"
  /\ pc' # "eol"
  /\ ends_with(trim_end(line), BACKSLASH)
  /\ Len(trim_end(line)) < Len(line)

\* C23: white space after a backslash at the end of a line gives exactly one
\* diagnostic, and its level is Suggestion, not Warning nor Error.
C23_SpaceAfterBackslashIsSuggestion ==
  [][continuation_with_space =>
       /\ Len(lex'.errors) = Len(lex.errors) + 1
       /\ lex'.errors[Len(lex'.errors)].level = "suggestion"]_vars

\* the longest operator at the front of the characters, then the longest one at
\* the front of the rest, and so on
RECURSIVE longest_match(_)
longest_match(run) ==
  IF run = << >> THEN << >>
  ELSE IF Len(run) >= 3 /\ SubSeq(run, 1, 3) \in Symbols3
  THEN << SubSeq(run, 1, 3) >> \o longest_match(SubSeq(run, 4, Len(run)))
  ELSE IF Len(run) >= 2 /\ SubSeq(run, 1, 2) \in Symbols2
  THEN << SubSeq(run, 1, 2) >> \o longest_match(SubSeq(run, 3, Len(run)))
  ELSE << SubSeq(run, 1, 1) >> \o longest_match(SubSeq(run, 2, Len(run)))

\* the lexemes of the tokens, in order
lexemes(tokens) == [i \in 1..Len(tokens) |-> tokens[i].val]

\* the characters of the sequences, in order
RECURSIVE concatenation(_)
concatenation(seqs) ==
  IF seqs = << >> THEN << >> ELSE Head(seqs) \o concatenation(Tail(seqs))

\* C24: a run of operator characters is cut by longest match from its oldest
\* character, three characters before two before one: the symbols of the run are
\* the longest matches and their lexemes put together are the run; <<= is one
\* token and a+++b gives ++ then +.
C24_LongestOperatorFirst ==
  /\ line \in OperatorRuns => pc # "panicked"
  /\ pc = "lexed" /\ line \in OperatorRuns =>
       /\ \A i \in 1..Len(lex.tokens) : lex.tokens[i].kind = "Symbol"
       /\ lexemes(lex.tokens) = longest_match(line)
       /\ concatenation(lexemes(lex.tokens)) = line
  /\ pc = "lexed" /\ line = Str2Seq(<<"<", "<", "=">>) => Len(lex.tokens) = 1
  /\ pc = "lexed" /\ line = Str2Seq(<<"a", "+", "+", "+", "b">>) =>
       lexemes(lex.tokens)
         = << <<Ord("a")>>, <<PLUS, PLUS>>, <<PLUS>>, <<Ord("b")>> >>

\* <<=< has been lexed: the operator of three characters, then <
C24_Witness ==
  /\ pc = "lexed"
  /\ line = Str2Seq(<<"<", "<", "=", "<">>)
  /\ lexemes(lex.tokens) = << Str2Seq(<<"<", "<", "=">>), <<Ord("<")>> >>

\* a step of lex_char that reads the closing quote of a string literal
closing_quote_read ==
  /\ pc = "chars"
  /\ idx' = idx + 1
  /\ lex.state.tag = "Str"
  /\ lex.escape = EscapeFalse
  /\ next_char = DQUOTE

\* C25: every string literal closed by its quote gives a Str token or extends the
\* Str token before it, the empty literal included: "" alone gives Str("").
C25_ClosedStringGivesStr ==
  [][closing_quote_read =>
       /\ last_is_str(lex'.tokens)
       /\ (lex.state.val = << >> /\ lex.tokens = << >>) =>
            /\ Len(lex'.tokens) = 1
            /\ lex'.tokens[1].val = << >>]_vars

\* a step that closes the symbol buffer with end_operator: the end of the line,
\* or a character that is white space or starts an identifier
symbols_closed ==
  /\ lex.state.tag = "Symbols"
  /\ lex' # lex \/ pc' # pc
  /\ \/ pc = "eol"
     \/ pc = "chars" /\ (is_alphanumeric(next_char) \/ is_whitespace(next_char))

\* the tokens emitted by the step
emitted == SubSeq(lex'.tokens, Len(lex.tokens) + 1, Len(lex'.tokens))

\* C26: end_operator empties the symbol buffer in at most three passes, each of
\* which emits one symbol and takes its characters from the buffer, and neither
\* of its two panics happens; on an empty buffer it does nothing.
C26_EndOperatorDrains ==
  /\ end_operator(set_state(LexingDataDefault, Symbols(<< >>)), LocationFrom)
       = set_state(LexingDataDefault, Symbols(<< >>))
  /\ [][symbols_closed =>
          /\ lex'.panic = ""
          /\ Len(lex'.tokens) >= Len(lex.tokens)
          /\ SubSeq(lex'.tokens, 1, Len(lex.tokens)) = lex.tokens
          /\ Len(emitted) \in 1..3
          /\ \A i \in 1..Len(emitted) :
               emitted[i].kind = "Symbol" /\ emitted[i].val # << >>
          /\ concatenation(lexemes(emitted)) = lex.state.val]_vars

\* a buffer of three operators of one character has been emptied in three passes
C26_Witness ==
  /\ pc = "lexed"
  /\ line = Str2Seq(<<">", "<", ".">>)
  /\ Len(lex.tokens) = 3
  /\ lex.state.tag = "StartOfLine"
  /\ lex.state.val = << >>

\* the first character of the literal that is not an octal digit
first_invalid_octal(literal) ==
  literal[CHOOSE i \in 1..Len(literal) :
            /\ ~is_ascii_octdigit(literal[i])
            /\ \A j \in 1..(i - 1) : is_ascii_octdigit(literal[j])]

\* C27: the error of to_oct_value for a literal that is not octal names the
\* first character of the literal that is not in '0'..'7'.
C27_OctalErrorNamesInvalidCharacter ==
  (/\ number.pc = "parsed"
   /\ number.fn = "octal"
   /\ number.res.kind = "Err"
   /\ \E i \in 1..Len(number.literal) : ~is_ascii_octdigit(number.literal[i]))
  => number.res.err.arg = << first_invalid_octal(number.literal) >>

\* a \U buffer of fewer than 8 digits is pending and the next character is no
\* hexadecimal digit
unicode_closed_by_next ==
  /\ pc = "chars"
  /\ lex.state.tag \in {"Str", "Char"}
  /\ lex.escape.tag = "Sequence"
  /\ lex.escape.kind = "Unicode"
  /\ Len(lex.escape.val) < 8
  /\ ~is_ascii_hexdigit(next_char)

\* the number of digits that the message of the diagnostic asks for
digits_asked(err) ==
  CASE err.msg = "must contain 4 digits, but found only" -> 4
    [] err.msg = "must contain 8 hexadecimal digits, did you mean u" -> 8
    [] OTHER -> 0

\* C28: closing a \U escape that holds n < 8 digits pushes exactly one Error,
\* which asks for 8 digits and names the n digits found; with n <= 4 it suggests
\* the lowercase \u, and with 5 <= n <= 7 it still asks for 8 digits, not 4.
C28_BigUnicodeTooShort ==
  [][unicode_closed_by_next =>
       /\ Len(lex'.errors) = Len(lex.errors) + 1
       /\ lex'.errors[Len(lex'.errors)].level = "error"
       /\ lex'.errors[Len(lex'.errors)].arg = << Len(lex.escape.val) >>
       /\ digits_asked(lex'.errors[Len(lex'.errors)]) = 8
       /\ Len(lex.escape.val) <= 4 =>
            lex'.errors[Len(lex'.errors)].msg
              = "must contain 8 hexadecimal digits, did you mean u"]_vars

\* a step of lex_char that reads a character while a character literal already
\* holds its one character
char_literal_full ==
  /\ pc = "chars"
  /\ lex' # lex \/ pc' # pc
  /\ lex.state.tag = "Char"
  /\ Len(lex.state.val) = 1

\* the diagnostic of a character read in a character literal that is full
one_character_error(err) ==
  /\ err.level = "error"
  /\ err.msg = "A char must contain only one character."

\* the last diagnostic says that a character was read in a full literal
extra_character_read ==
  /\ lex.errors # << >>
  /\ one_character_error(lex.errors[Len(lex.errors)])

\* C30: in a character literal that holds its character, a character that is
\* neither the closing quote nor a backslash adds exactly one Error, "A char must
\* contain only one character.", and leaves the state and the tokens as they
\* were; the closing quote read later emits the one token Char(c).
C30_CharHoldsOneCharacter ==
  [][/\ (char_literal_full /\ next_char \notin {SQUOTE, BACKSLASH}) =>
          /\ Len(lex'.errors) = Len(lex.errors) + 1
          /\ SubSeq(lex'.errors, 1, Len(lex.errors)) = lex.errors
          /\ one_character_error(lex'.errors[Len(lex'.errors)])
          /\ lex'.state = lex.state
          /\ lex'.tokens = lex.tokens
     /\ (char_literal_full /\ extra_character_read /\ next_char = SQUOTE) =>
          /\ lex'.panic = ""
          /\ Len(lex'.tokens) = Len(lex.tokens) + 1
          /\ SubSeq(lex'.tokens, 1, Len(lex.tokens)) = lex.tokens
          /\ lex'.tokens[Len(lex'.tokens)].kind = "Char"
          /\ lex'.tokens[Len(lex'.tokens)].val = lex.state.val]_vars

\* C31: a block comment ends at the first star-slash after its opening, also when
\* stars stand directly before it: what follows is lexed as normal tokens.
C31_CommentEndsAtFirstStarSlash ==
  (pc = "lexed" /\ line \in CommentLines) => lexemes(lex.tokens) = << <<Ord("b")>> >>

\* a block comment is open
comment_open == lex.state.tag = "Comment" /\ lex.state.cs # "False"

\* C32: a block comment that is open at the end of a line stays open on the next
\* line, and on the following lines every character is dropped and no token is
\* emitted until the comment closes.
C32_CommentStaysOpenAcrossLines ==
  [][/\ (pc = "eol" /\ comment_open /\ pc' = "lines") => comment_open'
     /\ (pc = "chars" /\ nlines > 1 /\ comment_open /\ idx' = idx + 1) =>
          /\ lex'.tokens = lex.tokens
          /\ lex'.state.tag = "Comment"]_vars

\* a step of lex_char that closes the pending escape sequence without aborting:
\* the character read is not a digit of the sequence, or it is its last digit
escape_sequence_closed ==
  /\ pc = "chars"
  /\ lex.state.tag \in {"Str", "Char"}
  /\ lex.escape.tag = "Sequence"
  /\ idx' = idx + 1
  /\ \/ ~is_ascii_hexdigit(next_char)
     \/ lex.escape.kind = "Octal" /\ ~is_ascii_octdigit(next_char)
     \/ Len(lex.escape.val) + 1 = max_len(lex.escape.kind)

\* C33: whenever an escape sequence is closed, with a character pushed or with an
\* error, the escape state afterwards is inactive.
C33_ClosedEscapeIsInactive ==
  [][escape_sequence_closed => lex'.escape = EscapeFalse]_vars

\* C34: the escape buffer never holds more digits than the maximum of its kind,
\* and the assertion of expect_max_length never fails.
C34_EscapeBufferWithinMaxLen ==
  /\ lex.escape.tag = "Sequence" => Len(lex.escape.val) <= max_len(lex.escape.kind)
  /\ lex.panic # "Never should have pushed here"

\* C35: closing a string literal keeps every token emitted before that is not the
\* Str it extends: the tokens are the previous ones with the last Str extended or
\* with one Str appended; in x = "a" the tokens x and = still precede the Str.
C35_EndStringKeepsOtherTokens ==
  [][/\ (string_closes /\ lex.state.val # << >>) =>
          /\ last_is_str(lex'.tokens)
          /\ IF last_is_str(lex.tokens)
             THEN /\ Len(lex'.tokens) = Len(lex.tokens)
                  /\ SubSeq(lex'.tokens, 1, Len(lex.tokens) - 1)
                       = SubSeq(lex.tokens, 1, Len(lex.tokens) - 1)
             ELSE /\ Len(lex'.tokens) = Len(lex.tokens) + 1
                  /\ SubSeq(lex'.tokens, 1, Len(lex.tokens)) = lex.tokens
     /\ (line = ExampleAssign /\ pc' = "lexed") =>
          lexemes(lex'.tokens) = << <<Ord("x")>>, <<Ord("=")>>, <<Ord("a")>> >>]_vars

\* an escape is pending
escape_pending == lex.escape.tag \in {"Single", "Sequence"}

\* C36: whenever an escape is pending and a further character of the line is to
\* be processed, the lexing state is Char(None) or Str, so the arm of lex_char
\* that panics on an escape in another state is never taken.
C36_EscapeOnlyInLiterals ==
  /\ (pc = "chars" /\ escape_pending) =>
       \/ lex.state.tag = "Str"
       \/ lex.state.tag = "Char" /\ lex.state.val = << >>
  /\ lex.panic # "Can't happen because error raised on escape creation if wrong state."

\* on the second line an escape sequence is pending in a string literal and a
\* further character of the line is to be processed
C36_Witness ==
  /\ pc = "chars"
  /\ nlines = 2
  /\ lex.state.tag = "Str"
  /\ lex.escape.tag = "Sequence"
  /\ lex.panic = ""

\* a step of lex_char that reads the closing quote of a character literal
char_closing_quote_read ==
  /\ pc = "chars"
  /\ lex' # lex \/ pc' # pc
  /\ lex.state.tag = "Char"
  /\ ~escape_pending
  /\ next_char = SQUOTE

\* C37: reading the closing quote of a character literal never aborts, whatever
\* stands between the quotes: a Char token is emitted or a diagnostic is pushed.
C37_ClosingQuoteNeverAborts ==
  [][char_closing_quote_read =>
       /\ lex'.panic = ""
       /\ \/ /\ Len(lex'.tokens) = Len(lex.tokens) + 1
             /\ lex'.tokens[Len(lex'.tokens)].kind = "Char"
          \/ Len(lex'.errors) > Len(lex.errors)]_vars

=============================================================================
